---- MODULE Spec2Model ----
(***************************************************************************)
(* State-machine model of the tzvetomir-portfolio Express API: the         *)
(* JWT-protected admin routes, the guestbook, contact and double opt-in    *)
(* newsletter routes, and the express-rate-limit middleware in front of    *)
(* them.                                                                   *)
(*                                                                         *)
(* Strings the code inspects character by character (user names, e-mail    *)
(* addresses, form fields, route parameters) are tuples of one-character   *)
(* strings, so that trim(), toLowerCase(), parseInt() and the regular      *)
(* expressions are computed and not assumed.  A nullable column is <<>>    *)
(* for NULL and <<v>> for the value v.                                     *)
(*                                                                         *)
(* A handler is an operator from the state and the request to its outcome  *)
(* (the response and the values it writes) and an action that applies the  *)
(* outcome.  A handler that awaits two database calls (a find and then a   *)
(* write) is two actions, one per database call, with the handler's local  *)
(* variables kept in the slot of the request in flight: other requests can *)
(* run between the two.                                                    *)
(***************************************************************************)
EXTENDS Integers, Sequences, FiniteSets, TLC

\* ----------------------------------------------------------------- bounds
\* Ticks of the coarse clock (one tick is longer than any limiter window).
MaxTime == 1
\* Rows the autoincrement sequence of the contact table hands out.
MaxRows == 1
\* Rows the autoincrement sequence of the guestbook table hands out to
\* visitors.
MaxEntries == 2
\* Rows the autoincrement sequence of the subscriber table hands out.
MaxSubs == 2
\* Requests one client IP sends through the general limiter per tick in the
\* specifications that do not study the limiters themselves.
MaxRequests == 3
\* Requests sent after a limiter has reached its cap.
MaxOver == 1
\* Calls of generateToken().
MaxTokens == 4
\* Rows the seed script creates.
MaxSeeded == 3

\* ------------------------------------------------------- nullable values
Null == <<>>
Some(v) == <<v>>
IsNull(x) == x = <<>>
Val(x) == x[1]

\* ------------------------------------------------------------ JSON values
\* A field of req.body: a string (tuple of characters), a number, or absent.
JStr(s) == [t |-> "string", s |-> s]
JNum == [t |-> "number", s |-> <<>>]
JUndefined == [t |-> "undefined", s |-> <<>>]
\* JavaScript truthiness, as tested by `!username || !password`.
Truthy(v) == \/ v.t = "number"
             \/ v.t = "string" /\ v.s # <<>>

\* ---------------------------------------------------------------- strings
LowerChar(c) ==
  CASE c = "A" -> "a"
    [] c = "D" -> "d"
    [] c = "B" -> "b"
    [] c = "X" -> "x"
    [] OTHER -> c
\* String.prototype.toLowerCase()
ToLowerCase(s) == [i \in 1..Len(s) |-> LowerChar(s[i])]

IsSpace(c) == c = " "
RECURSIVE TrimStart(_)
TrimStart(s) == IF s # <<>> /\ IsSpace(Head(s)) THEN TrimStart(Tail(s)) ELSE s
RECURSIVE TrimEnd(_)
TrimEnd(s) ==
  IF s # <<>> /\ IsSpace(s[Len(s)]) THEN TrimEnd(SubSeq(s, 1, Len(s) - 1)) ELSE s
\* String.prototype.trim(), as applied by zod's .trim()
Trim(s) == TrimEnd(TrimStart(s))

IsDigit(c) == c \in {"0", "1", "2", "3", "4", "5", "6", "7", "8", "9"}
DigitVal(c) ==
  CASE c = "0" -> 0 [] c = "1" -> 1 [] c = "2" -> 2 [] c = "3" -> 3 [] c = "4" -> 4
    [] c = "5" -> 5 [] c = "6" -> 6 [] c = "7" -> 7 [] c = "8" -> 8 [] c = "9" -> 9
RECURSIVE DigitPrefix(_)
DigitPrefix(s) ==
  IF s # <<>> /\ IsDigit(Head(s)) THEN <<Head(s)>> \o DigitPrefix(Tail(s)) ELSE <<>>
RECURSIVE DecimalValue(_)
DecimalValue(d) ==
  IF d = <<>> THEN 0 ELSE 10 * DecimalValue(SubSeq(d, 1, Len(d) - 1)) + DigitVal(d[Len(d)])
\* `${id}` in a URL: the route parameter that names row n (n below ten).
Decimal(n) == <<CHOOSE c \in {"1", "2", "3", "4", "5", "6", "7", "8", "9"} : DigitVal(c) = n>>
NaN == [nan |-> TRUE, n |-> 0]
\* parseInt(s, 10) on a route parameter: leading white space is skipped, the
\* longest prefix of digits is read, and NaN results when there is none.
ParseInt(s) ==
  LET d == DigitPrefix(TrimStart(s))
  IN IF d = <<>> THEN NaN ELSE [nan |-> FALSE, n |-> DecimalValue(d)]
IsNaN(x) == x.nan

\* ------------------------------------------------------------ environment
\* process.env as read at module load.  "" is an unset (or empty) variable.
UserAdmin == <<"a", "d", "m", "i", "n">>
UserAdminCap == <<"A", "d", "m", "i", "n">>
PwGood == <<"p", "w">>
PwBad == <<"x">>
\* bcrypt: the hash of a password, and an unset ADMIN_PASSWORD_HASH.
BcryptHash(pw) == [alg |-> "bcrypt", of |-> pw]
NoHash == [alg |-> "unset", of |-> <<>>]
\* bcrypt.compare(data, hash): rejects when data is not a string.
BcryptCompare(data, hash) ==
  IF data.t # "string" THEN "throw"
  ELSE IF hash = BcryptHash(data.s) THEN "true" ELSE "false"

\* JWT_EXPIRES_IN, in ticks of the clock.
JWT_EXPIRES_IN == 1

Envs ==
  { [ADMIN_USERNAME |-> u, ADMIN_PASSWORD_HASH |-> h, JWT_SECRET |-> k,
     NODE_ENV |-> "production"] :
      u \in {UserAdmin}, h \in {BcryptHash(PwGood)}, k \in {"s3cret"} }
  \cup { [ADMIN_USERNAME |-> UserAdminCap, ADMIN_PASSWORD_HASH |-> BcryptHash(PwGood),
          JWT_SECRET |-> "s3cret", NODE_ENV |-> "production"],
         [ADMIN_USERNAME |-> UserAdmin, ADMIN_PASSWORD_HASH |-> NoHash,
          JWT_SECRET |-> "s3cret", NODE_ENV |-> "production"],
         [ADMIN_USERNAME |-> UserAdmin, ADMIN_PASSWORD_HASH |-> BcryptHash(PwGood),
          JWT_SECRET |-> "", NODE_ENV |-> "production"] }
\* The values of NODE_ENV a server is run with; "" is unset.
Modes == {"production", "development", ""}

\* ------------------------------------------------------------------- JWT
\* The signature is a MAC of the claims under the signing key.
JwtMac(username, role, iat, exp, key) ==
  [username |-> username, role |-> role, iat |-> iat, exp |-> exp, key |-> key]
\* jwt.sign(payload, secret, { expiresIn }) at time t
JwtSign(payload, secret, expiresIn, t) ==
  [kind |-> "jwt", username |-> payload.username, role |-> payload.role,
   iat |-> t, exp |-> t + expiresIn,
   sig |-> JwtMac(payload.username, payload.role, t, t + expiresIn, secret)]
\* jwt.verify(token, secret) at time t: the structure, then the signature,
\* then the expiry.
JwtVerify(token, secret, t) ==
  IF token.kind # "jwt" THEN "JsonWebTokenError"
  ELSE IF token.sig # JwtMac(token.username, token.role, token.iat, token.exp, secret)
    THEN "JsonWebTokenError"
  ELSE IF t >= token.exp THEN "TokenExpiredError"
  ELSE "ok"

\* ------------------------------------------------------------------ state
VARIABLES
  env,             \* process.env, fixed at start
  now,             \* the clock
  issued,          \* the tokens POST /admin/login has returned
  guestbookEntry,  \* table GuestbookEntry: id -> row
  newsletterSub,   \* table NewsletterSub: id -> row (email is unique)
  contactMessage,  \* table ContactMessage: id -> row
  autoinc,         \* the autoincrement sequence of each table
  nextToken,       \* the number of generateToken() calls so far, plus one
  hits,            \* express-rate-limit: limiter -> client IP -> hits in the window
  inflight,        \* request slot -> the handler suspended between two awaits
  seed,            \* prisma/seed.js: the position of the running script
  panel,           \* AdminPanel.jsx in one browser tab: its state and requests
  clicked          \* history: the rows whose current confirmation link was followed

vars == <<env, now, issued, guestbookEntry, newsletterSub, contactMessage, autoinc,
          nextToken, hits, inflight, seed, panel, clicked>>
tables == <<guestbookEntry, newsletterSub, contactMessage, autoinc>>

IPs == {"ip1", "ip2"}
Reqs == {"r1", "r2"}
Idle == [pc |-> "idle"]

\* A response: the HTTP status, the message or error text of the body, and
\* the rest of the body.
Reply(status, body, data) == [status |-> status, body |-> body, data |-> data]
NoData == <<>>

\* ---------------------------------------------------------- rate limiters
Limiters == {"general", "guestbook", "newsletter", "contact", "login"}
generalMax == 100
guestbookMax == 3
newsletterMax == 5
contactMax == 3
loginMax == 5
Max(l) ==
  CASE l = "general" -> generalMax
    [] l = "guestbook" -> guestbookMax
    [] l = "newsletter" -> newsletterMax
    [] l = "contact" -> contactMax
    [] l = "login" -> loginMax
LimitMessage(l) ==
  CASE l = "general" -> "Too many requests. Please try again in a few minutes."
    [] l = "guestbook" -> "You've signed the guestbook recently. Come back in a bit!"
    [] l = "newsletter" -> "Too many subscribe attempts. Please try again later."
    [] l = "contact" -> "You've sent a few messages already. I'll get back to you soon!"
    [] l = "login" -> "Too many login attempts. Try again in 15 minutes."

Increment(h, l, ip) == [h EXCEPT ![l][ip] = @ + 1]
\* Faulty variant of RateLimit: one request too many is let through.
RateLimitAtCap(h, l, ip) ==
  LET h2 == Increment(h, l, ip)
  IN [hits |-> h2, blocked |-> IF h2[l][ip] > Max(l) + 1 THEN l ELSE "none"]
\* Faulty variant of RateLimit: one counter for all clients.
RateLimitSharedKey(h, l, ip) ==
  LET h2 == [h EXCEPT ![l] = [i \in IPs |-> @[i] + 1]]
  IN [hits |-> h2, blocked |-> IF h2[l][ip] > Max(l) THEN l ELSE "none"]
\* rateLimit({ windowMs, max }): the middleware counts the request under the
\* client's IP and lets it through unless the count now exceeds max.
RateLimit(h, l, ip) ==
  LET h2 == Increment(h, l, ip)
  IN [hits |-> h2, blocked |-> IF h2[l][ip] > Max(l) THEN l ELSE "none"]
\* Two limiters in a row: the second runs only if the first lets through.
RateLimit2(h, l1, l2, ip) ==
  LET a == RateLimit(h, l1, ip)
  IN IF a.blocked # "none" THEN a ELSE RateLimit(a.hits, l2, ip)
TooMany(l) == Reply(429, LimitMessage(l), NoData)

NoHits == [l \in Limiters |-> [ip \in IPs |-> 0]]

\* The window of limiter l ends for client ip.
ResetWindow(l, ip) ==
  /\ hits[l][ip] > 0
  /\ hits' = [hits EXCEPT ![l][ip] = 0]
  /\ UNCHANGED <<panel, seed, env, now, issued, tables, nextToken, inflight, clicked>>

\* A tick of the coarse clock: every window has ended.
Tick ==
  /\ now < MaxTime
  /\ now' = now + 1
  /\ hits' = NoHits
  /\ UNCHANGED <<panel, seed, env, issued, tables, nextToken, inflight, clicked>>

\* ------------------------------------------------------------ requireAdmin
\* The Authorization header: `scheme` followed by a space and each element
\* of `rest`, joined by spaces.  An absent header has the empty scheme.
Header(scheme, rest) == [scheme |-> scheme, rest |-> rest]
NoHeader == Header("", <<>>)
Garbage == [kind |-> "garbage"]
EmptySegment == [kind |-> "empty"]
\* authHeader.startsWith("Bearer ")
StartsWithBearer(h) == h.scheme = "Bearer" /\ h.rest # <<>>
\* authHeader.split(" ")[1]
BearerToken(h) == h.rest[1]

AuthOk(decoded) == [status |-> 200, error |-> "", admin |-> decoded]
AuthFail(status, error) == [status |-> status, error |-> error, admin |-> Garbage]
\* jwt.decode(token): the claims, with neither signature nor expiry checked
JwtDecode(token) == IF token.kind = "jwt" THEN "ok" ELSE "JsonWebTokenError"
\* Faulty variant of requireAdmin: the token is decoded, not verified.
requireAdminDecodeOnly(h) ==
  IF env.JWT_SECRET = ""
    THEN AuthFail(500, "Server misconfigured. Admin auth is unavailable.")
  ELSE IF h = NoHeader \/ ~StartsWithBearer(h)
    THEN AuthFail(401, "Authentication required.")
  ELSE IF JwtDecode(BearerToken(h)) = "ok" THEN AuthOk(BearerToken(h))
  ELSE AuthFail(401, "Invalid token. Please log in again.")
\* requireAdmin(req, res, next): the refusal, or the decoded claims that
\* are attached to the request before next() is called.
requireAdmin(h) ==
  IF env.JWT_SECRET = ""
    THEN AuthFail(500, "Server misconfigured. Admin auth is unavailable.")
  ELSE IF h = NoHeader \/ ~StartsWithBearer(h)
    THEN AuthFail(401, "Authentication required.")
  ELSE LET token == BearerToken(h)
           v == JwtVerify(token, env.JWT_SECRET, now)
       IN IF v = "ok" THEN AuthOk(token)
          ELSE IF v = "TokenExpiredError"
            THEN AuthFail(401, "Session expired. Please log in again.")
          ELSE AuthFail(401, "Invalid token. Please log in again.")

\* What a client can put in the header: nothing, another scheme, a token it
\* was issued (possibly expired by now), such a token with its expiry
\* rewritten, a token signed with a key of its own, or junk.
Tampered(tok) == [tok EXCEPT !.exp = MaxTime + 2]
Forged ==
  JwtSign([username |-> UserAdmin, role |-> "admin"], "evil", MaxTime + 2, 0)
Headers ==
  {NoHeader, Header("Bearer", <<>>), Header("Bearer", <<Garbage>>), Header("Bearer", <<Forged>>)}
  \cup {Header("Bearer", <<t>>) : t \in issued}
  \cup {Header("Bearer", <<Tampered(t)>>) : t \in issued}
  \cup {Header("Bearer", <<t, Garbage>>) : t \in issued}
  \cup {Header("Bearer", <<EmptySegment, t>>) : t \in issued}
  \cup {Header("Basic", <<t>>) : t \in issued}
  \cup {Header("bearer", <<t>>) : t \in issued}

\* ------------------------------------------------------ POST /admin/login
Usernames == {JUndefined, JStr(<<>>), JStr(UserAdmin), JStr(UserAdminCap),
              JStr(<<"r", "o", "o", "t">>)}
Passwords == {JUndefined, JStr(<<>>), JStr(PwGood), JStr(PwBad), JNum}

\* username.toLowerCase() !== ADMIN_USERNAME.toLowerCase(), negated
UsernameMatches(username) ==
  ToLowerCase(username.s) = ToLowerCase(env.ADMIN_USERNAME)

\* Faulty variant of LoginHandler: the user name is not compared.
LoginSkipsUsername(username, password) ==
  IF env.ADMIN_PASSWORD_HASH = NoHash \/ env.JWT_SECRET = ""
    THEN Reply(500, "Admin login is not configured on this server.", NoData)
  ELSE IF ~Truthy(username) \/ ~Truthy(password)
    THEN Reply(400, "Username and password are required.", NoData)
  ELSE LET valid == BcryptCompare(password, env.ADMIN_PASSWORD_HASH)
       IN IF valid = "throw" THEN Reply(500, "Login failed. Please try again.", NoData)
          ELSE IF valid = "false" THEN Reply(401, "Invalid credentials.", NoData)
          ELSE Reply(200, "Welcome back, admin.",
                     [token |-> JwtSign([username |-> env.ADMIN_USERNAME, role |-> "admin"],
                                        env.JWT_SECRET, JWT_EXPIRES_IN, now),
                      expiresIn |-> JWT_EXPIRES_IN])
\* The handler of router.post("/login")
LoginHandler(username, password) ==
  IF env.ADMIN_PASSWORD_HASH = NoHash \/ env.JWT_SECRET = ""
    THEN Reply(500, "Admin login is not configured on this server.", NoData)
  ELSE IF ~Truthy(username) \/ ~Truthy(password)
    THEN Reply(400, "Username and password are required.", NoData)
  ELSE IF ~UsernameMatches(username)
    THEN Reply(401, "Invalid credentials.", NoData)
  ELSE LET valid == BcryptCompare(password, env.ADMIN_PASSWORD_HASH)
       IN IF valid = "throw" THEN Reply(500, "Login failed. Please try again.", NoData)
          ELSE IF valid = "false" THEN Reply(401, "Invalid credentials.", NoData)
          ELSE Reply(200, "Welcome back, admin.",
                     [token |-> JwtSign([username |-> env.ADMIN_USERNAME, role |-> "admin"],
                                        env.JWT_SECRET, JWT_EXPIRES_IN, now),
                      expiresIn |-> JWT_EXPIRES_IN])
\* loginLimiter, then the handler
LoginOutcome(ip, username, password) ==
  LET lim == RateLimit(hits, "login", ip)
  IN [hits |-> lim.hits,
      resp |-> IF lim.blocked # "none" THEN TooMany(lim.blocked)
               ELSE LoginHandler(username, password)]
Login(ip, username, password) ==
  LET out == LoginOutcome(ip, username, password)
  IN /\ hits' = out.hits
     /\ issued' = IF out.resp.status = 200 THEN issued \cup {out.resp.data.token} ELSE issued
     /\ UNCHANGED <<panel, seed, env, now, tables, nextToken, inflight, clicked>>

\* -------------------------------------------------------------- validation
nameMax == 80
messageMax == 200
emailMax == 255
contactNameMax == 100
subjectMax == 200
contactMessageMax == 5000

HasAngle(s) == \E i \in 1..Len(s) : s[i] \in {"<", ">"}
Last(q) == q[Len(q)]
\* Faulty variant of ZText: the value is not trimmed.
ZTextNoTrim(v, required, maxLen, tooLong, noAngle, invalid) ==
  IF v.t = "undefined" THEN [ok |-> FALSE, value |-> <<>>, error |-> "Required"]
  ELSE IF v.t # "string"
    THEN [ok |-> FALSE, value |-> <<>>, error |-> "Expected string, received number"]
  ELSE LET s == v.s
           issues == (IF Len(s) < 1 THEN <<required>> ELSE <<>>)
                     \o (IF Len(s) > maxLen THEN <<tooLong>> ELSE <<>>)
                     \o (IF noAngle /\ HasAngle(s) THEN <<invalid>> ELSE <<>>)
       IN IF issues = <<>> THEN [ok |-> TRUE, value |-> s, error |-> ""]
          ELSE [ok |-> FALSE, value |-> <<>>, error |-> Last(issues)]
\* One zod string field: z.string().trim().min(1).max(n).regex(/^[^<>]*$/).
\* Every check runs and reports its issue; validate() keeps, per field, the
\* message of the last issue.
ZText(v, required, maxLen, tooLong, noAngle, invalid) ==
  IF v.t = "undefined" THEN [ok |-> FALSE, value |-> <<>>, error |-> "Required"]
  ELSE IF v.t # "string"
    THEN [ok |-> FALSE, value |-> <<>>, error |-> "Expected string, received number"]
  ELSE LET s == Trim(v.s)
           issues == (IF Len(s) < 1 THEN <<required>> ELSE <<>>)
                     \o (IF Len(s) > maxLen THEN <<tooLong>> ELSE <<>>)
                     \o (IF noAngle /\ HasAngle(s) THEN <<invalid>> ELSE <<>>)
       IN IF issues = <<>> THEN [ok |-> TRUE, value |-> s, error |-> ""]
          ELSE [ok |-> FALSE, value |-> <<>>, error |-> Last(issues)]

IsLetter(c) == c \in {"a", "b", "d", "i", "o", "x", "A", "B", "D", "X"}
IsLocalChar(c) == IsLetter(c) \/ IsDigit(c) \/ c \in {".", "_", "+", "-"}
Count(s, c) == Cardinality({i \in 1..Len(s) : s[i] = c})
IndexOf(s, c) == CHOOSE i \in 1..Len(s) : s[i] = c /\ \A j \in 1..(i - 1) : s[j] # c
LastIndexOf(s, c) == CHOOSE i \in 1..Len(s) : s[i] = c /\ \A j \in (i + 1)..Len(s) : s[j] # c
\* zod's e-mail pattern: a local part of letters, digits and . _ + - that
\* neither starts nor ends with a dot and has no two dots in a row, one @,
\* and a domain of dot-separated labels ending in a label of two or more
\* letters.
IsEmail(s) ==
  /\ Count(s, "@") = 1
  /\ LET at == IndexOf(s, "@")
         local == SubSeq(s, 1, at - 1)
         domain == SubSeq(s, at + 1, Len(s))
     IN /\ local # <<>>
        /\ \A i \in 1..Len(local) : IsLocalChar(local[i])
        /\ local[1] # "." /\ Last(local) # "."
        /\ \A i \in 1..(Len(s) - 1) : ~(s[i] = "." /\ s[i + 1] = ".")
        /\ Count(domain, ".") >= 1
        /\ domain[1] # "." /\ domain[1] # "-"
        /\ \A i \in 1..Len(domain) : IsLetter(domain[i]) \/ IsDigit(domain[i]) \/ domain[i] \in {".", "-"}
        /\ LET dot == LastIndexOf(domain, ".")
           IN /\ Len(domain) - dot >= 2
              /\ \A i \in (dot + 1)..Len(domain) : IsLetter(domain[i])
\* Faulty variant of ZEmail: the address keeps its letter case.
ZEmailKeepsCase(v) ==
  IF v.t = "undefined" THEN [ok |-> FALSE, value |-> <<>>, error |-> "Required"]
  ELSE IF v.t # "string"
    THEN [ok |-> FALSE, value |-> <<>>, error |-> "Expected string, received number"]
  ELSE LET s == Trim(v.s)
           issues == (IF ~IsEmail(s) THEN <<"Please provide a valid email address">> ELSE <<>>)
                     \o (IF Len(s) > emailMax
                           THEN <<"Email must be 255 characters or less">> ELSE <<>>)
       IN IF issues = <<>> THEN [ok |-> TRUE, value |-> s, error |-> ""]
          ELSE [ok |-> FALSE, value |-> <<>>, error |-> Last(issues)]
\* z.string().trim().email().max(255).toLowerCase()
ZEmail(v) ==
  IF v.t = "undefined" THEN [ok |-> FALSE, value |-> <<>>, error |-> "Required"]
  ELSE IF v.t # "string"
    THEN [ok |-> FALSE, value |-> <<>>, error |-> "Expected string, received number"]
  ELSE LET s == Trim(v.s)
           issues == (IF ~IsEmail(s) THEN <<"Please provide a valid email address">> ELSE <<>>)
                     \o (IF Len(s) > emailMax
                           THEN <<"Email must be 255 characters or less">> ELSE <<>>)
       IN IF issues = <<>> THEN [ok |-> TRUE, value |-> ToLowerCase(s), error |-> ""]
          ELSE [ok |-> FALSE, value |-> <<>>, error |-> Last(issues)]

\* validate(schema, input): the parsed fields, or a map from each failing
\* field to its message.
Validated(fields) ==
  LET bad == {f \in DOMAIN fields : ~fields[f].ok}
  IN IF bad = {}
       THEN [data |-> Some([f \in DOMAIN fields |-> fields[f].value]), error |-> Null]
       ELSE [data |-> Null, error |-> Some([f \in bad |-> fields[f].error])]
guestbookSchema(body) ==
  [name |-> ZText(body.name, "Name is required", nameMax,
                  "Name must be 80 characters or less", TRUE,
                  "Name contains invalid characters"),
   message |-> ZText(body.message, "Message is required", messageMax,
                     "Message must be 200 characters or less", TRUE,
                     "Message contains invalid characters")]
newsletterSchema(body) == [email |-> ZEmail(body.email)]
contactSchema(body) ==
  [name |-> ZText(body.name, "Name is required", contactNameMax,
                  "Name must be 100 characters or less", FALSE, ""),
   email |-> ZEmail(body.email),
   subject |-> ZText(body.subject, "Subject is required", subjectMax,
                     "Subject must be 200 characters or less", FALSE, ""),
   message |-> ZText(body.message, "Message is required", contactMessageMax,
                     "Message must be 5000 characters or less", FALSE, "")]

\* ----------------------------------------------------------------- tables
Remove(table, id) == [i \in DOMAIN table \ {id} |-> table[i]]
Insert(table, row) == [i \in DOMAIN table \cup {row.id} |-> IF i = row.id THEN row ELSE table[i]]
Select(row, columns) == [c \in columns |-> row[c]]
\* crypto.createHash("sha256").update(ip).digest("hex")
Sha256(ip) == [sha256 |-> ip]
\* findMany({ orderBy: { createdAt: "desc" } }) over the rows `ids` of a
\* table: the orders the database may return them in.  Rows with the same
\* createdAt come in any order.
RECURSIVE OrderByCreatedAtDesc(_, _)
OrderByCreatedAtDesc(table, ids) ==
  IF ids = {} THEN {<<>>}
  ELSE LET newest == {i \in ids : \A j \in ids : table[i].createdAt >= table[j].createdAt}
       IN UNION {{<<i>> \o rest : rest \in OrderByCreatedAtDesc(table, ids \ {i})} :
                   i \in newest}
\* The rows of a query result, each with the selected columns.
SelectMany(table, order, columns) ==
  [k \in 1..Len(order) |-> Select(table[order[k]], columns)]

\* Request bodies and route parameters the clients send.
LongText(n) == [i \in 1..n |-> "a"]
GuestbookBodies ==
  { [name |-> n, message |-> m] :
      n \in {JUndefined, JStr(<<"a">>), JStr(<<" ", "a", " ">>), JStr(<<" ">>),
             JStr(<<"<", "b", ">">>), JStr(LongText(nameMax + 1))},
      m \in {JStr(<<"o">>), JStr(<<>>), JNum} }
EmailA == <<"a", "@", "b", ".", "i", "o">>
EmailX == <<"x", "@", "b", ".", "i", "o">>
NewsletterBodies ==
  { [email |-> e] :
      e \in {JUndefined, JStr(EmailA), JStr(EmailX), JStr(<<"A", "@", "B", ".", "i", "o">>),
             JStr(<<" ">> \o EmailA \o <<" ">>), JStr(<<"a", "@", "b">>),
             JStr(<<"a", "@", "@", "b", ".", "i", "o">>), JStr(<<"a", "b", ".", "i", "o">>),
             JStr(<<".", "a", "@", "b", ".", "i", "o">>), JStr(<<>>)} }
ContactBodies ==
  { [name |-> n, email |-> e, subject |-> JStr(<<"o">>), message |-> m] :
      n \in {JStr(<<"a">>), JStr(<<" ">>)},
      e \in {JStr(EmailA), JStr(<<"a", "@", "b">>)},
      m \in {JStr(<<"o">>), JUndefined} }
IdParams == {<<"1">>, <<"2">>, <<"1", "x">>, <<"x">>}
TokenParams == 1..MaxTokens

\* ---------------------------------------------------- GET /api/guestbook
\* Faulty variant of VisibleEntries: findMany without the where clause.
EntriesUnfiltered == OrderByCreatedAtDesc(guestbookEntry, DOMAIN guestbookEntry)
\* where: { visible: true }, orderBy: { createdAt: "desc" }
VisibleEntries ==
  OrderByCreatedAtDesc(guestbookEntry,
                       {i \in DOMAIN guestbookEntry : guestbookEntry[i].visible})
\* Faulty variant of GetGuestbookOutcome: ipHash is in the select list.
GetGuestbookSelectsIpHash(ip, entries) ==
  LET lim == RateLimit(hits, "general", ip)
  IN [hits |-> lim.hits,
      resp |-> IF lim.blocked # "none" THEN TooMany(lim.blocked)
               ELSE Reply(200, "",
                          SelectMany(guestbookEntry, entries,
                                     {"id", "name", "message", "ipHash", "createdAt"}))]
\* The handler, `entries` being the order findMany returned the rows in.
GetGuestbookOutcome(ip, entries) ==
  LET lim == RateLimit(hits, "general", ip)
  IN [hits |-> lim.hits,
      resp |-> IF lim.blocked # "none" THEN TooMany(lim.blocked)
               ELSE Reply(200, "",
                          SelectMany(guestbookEntry, entries,
                                     {"id", "name", "message", "createdAt"}))]
GetGuestbook(ip) ==
  \E entries \in VisibleEntries :
    /\ hits' = GetGuestbookOutcome(ip, entries).hits
    /\ UNCHANGED <<panel, seed, env, now, issued, tables, nextToken, inflight, clicked>>

\* --------------------------------------------------- POST /api/guestbook
\* Faulty variant of PostGuestbookOutcome: the body is validated before the
\* limiters count the request.
PostGuestbookValidatesFirst(ip, body) ==
  LET lim == RateLimit2(hits, "general", "guestbook", ip)
      v == Validated(guestbookSchema(body))
      entry == [id |-> autoinc.guestbook, name |-> v.data[1].name,
                message |-> v.data[1].message, ipHash |-> Sha256(ip),
                visible |-> TRUE, createdAt |-> now]
  IN IF ~IsNull(v.error)
       THEN [hits |-> hits, resp |-> Reply(400, "validation", v.error[1]), created |-> Null]
     ELSE IF lim.blocked # "none"
       THEN [hits |-> lim.hits, resp |-> TooMany(lim.blocked), created |-> Null]
     ELSE [hits |-> lim.hits,
           resp |-> Reply(201, "", Select(entry, {"id", "name", "message", "createdAt"})),
           created |-> Some(entry)]
PostGuestbookOutcome(ip, body) ==
  LET lim == RateLimit2(hits, "general", "guestbook", ip)
      v == Validated(guestbookSchema(body))
      entry == [id |-> autoinc.guestbook, name |-> v.data[1].name,
                message |-> v.data[1].message, ipHash |-> Sha256(ip),
                visible |-> TRUE, createdAt |-> now]
  IN IF lim.blocked # "none"
       THEN [hits |-> lim.hits, resp |-> TooMany(lim.blocked), created |-> Null]
     ELSE IF ~IsNull(v.error)
       THEN [hits |-> lim.hits, resp |-> Reply(400, "validation", v.error[1]), created |-> Null]
     ELSE [hits |-> lim.hits,
           resp |-> Reply(201, "", Select(entry, {"id", "name", "message", "createdAt"})),
           created |-> Some(entry)]
PostGuestbook(ip, body) ==
  LET out == PostGuestbookOutcome(ip, body)
  IN /\ hits' = out.hits
     /\ IF IsNull(out.created) THEN UNCHANGED tables
        ELSE /\ autoinc.guestbook <= MaxEntries
             /\ guestbookEntry' = Insert(guestbookEntry, out.created[1])
             /\ autoinc' = [autoinc EXCEPT !.guestbook = @ + 1]
             /\ UNCHANGED <<newsletterSub, contactMessage>>
     /\ UNCHANGED <<panel, seed, env, now, issued, nextToken, inflight, clicked>>

\* ----------------------------------------------------- POST /api/contact
PostContactOutcome(ip, body) ==
  LET lim == RateLimit2(hits, "general", "contact", ip)
      v == Validated(contactSchema(body))
      message == [id |-> autoinc.contact, name |-> v.data[1].name, email |-> v.data[1].email,
                  subject |-> v.data[1].subject, message |-> v.data[1].message,
                  read |-> FALSE, createdAt |-> now]
  IN IF lim.blocked # "none"
       THEN [hits |-> lim.hits, resp |-> TooMany(lim.blocked), created |-> Null]
     ELSE IF ~IsNull(v.error)
       THEN [hits |-> lim.hits, resp |-> Reply(400, "validation", v.error[1]), created |-> Null]
     ELSE [hits |-> lim.hits,
           resp |-> Reply(201, "Message received! I'll get back to you soon.",
                          Select(message, {"id", "name", "subject", "createdAt"})),
           created |-> Some(message)]
PostContact(ip, body) ==
  LET out == PostContactOutcome(ip, body)
  IN /\ hits' = out.hits
     /\ IF IsNull(out.created) THEN UNCHANGED tables
        ELSE /\ autoinc.contact <= MaxRows
             /\ contactMessage' = Insert(contactMessage, out.created[1])
             /\ autoinc' = [autoinc EXCEPT !.contact = @ + 1]
             /\ UNCHANGED <<guestbookEntry, newsletterSub>>
     /\ UNCHANGED <<panel, seed, env, now, issued, nextToken, inflight, clicked>>

\* --------------------------------------------------- POST /api/newsletter
\* generateToken(): crypto.randomBytes(32), a value no earlier call returned;
\* the n-th call is modelled as returning n.
generateToken(n) == n

\* prisma.newsletterSub.findUnique({ where: { email } })
FindByEmail(email) ==
  LET ids == {i \in DOMAIN newsletterSub : newsletterSub[i].email = email}
  IN IF ids = {} THEN Null ELSE Some(newsletterSub[CHOOSE i \in ids : TRUE])

\* Faulty variant of PostNewsletterFindOutcome: a confirmed subscriber is
\* not answered at once.
PostNewsletterFindNoCaseA(ip, body) ==
  LET lim == RateLimit2(hits, "general", "newsletter", ip)
      v == Validated(newsletterSchema(body))
      existing == FindByEmail(v.data[1].email)
  IN IF lim.blocked # "none"
       THEN [hits |-> lim.hits, resp |-> Some(TooMany(lim.blocked)),
             email |-> <<>>, existing |-> Null]
     ELSE IF ~IsNull(v.error)
       THEN [hits |-> lim.hits, resp |-> Some(Reply(400, "validation", v.error[1])),
             email |-> <<>>, existing |-> Null]
     ELSE [hits |-> lim.hits, resp |-> Null, email |-> v.data[1].email, existing |-> existing]
\* The handler up to the answer of findUnique.  A subscriber who is confirmed
\* and not unsubscribed is answered at once; otherwise the handler goes on
\* (resp is null) with the row it found.
PostNewsletterFindOutcome(ip, body) ==
  LET lim == RateLimit2(hits, "general", "newsletter", ip)
      v == Validated(newsletterSchema(body))
      existing == FindByEmail(v.data[1].email)
  IN IF lim.blocked # "none"
       THEN [hits |-> lim.hits, resp |-> Some(TooMany(lim.blocked)),
             email |-> <<>>, existing |-> Null]
     ELSE IF ~IsNull(v.error)
       THEN [hits |-> lim.hits, resp |-> Some(Reply(400, "validation", v.error[1])),
             email |-> <<>>, existing |-> Null]
     ELSE IF ~IsNull(existing) /\ existing[1].confirmed /\ IsNull(existing[1].unsubAt)
       THEN [hits |-> lim.hits, resp |-> Some(Reply(200, "already_subscribed", NoData)),
             email |-> v.data[1].email, existing |-> existing]
     ELSE [hits |-> lim.hits, resp |-> Null, email |-> v.data[1].email, existing |-> existing]
PostNewsletterFind(r, ip, body) ==
  LET out == PostNewsletterFindOutcome(ip, body)
  IN /\ inflight[r] = Idle
     /\ hits' = out.hits
     /\ inflight' = IF ~IsNull(out.resp) THEN inflight
                    ELSE [inflight EXCEPT ![r] = [pc |-> "subscribe", email |-> out.email,
                                                  existing |-> out.existing]]
     /\ UNCHANGED <<panel, seed, env, now, issued, tables, nextToken, clicked>>

\* Faulty variant of ResubscribeData: the unsubscribe token is kept.
ResubscribeKeepsUnsubToken(row, confirmToken, unsubToken) ==
  [row EXCEPT !.confirmed = FALSE, !.confirmToken = Some(confirmToken),
              !.unsubAt = Null, !.confirmedAt = Null]
\* The data of the update that resubscribes an unsubscribed row.
ResubscribeData(row, confirmToken, unsubToken) ==
  [row EXCEPT !.confirmed = FALSE, !.confirmToken = Some(confirmToken),
              !.unsubToken = unsubToken, !.unsubAt = Null, !.confirmedAt = Null]
\* Faulty variant of ResendData: the row keeps its confirmation token.
ResendKeepsToken(row, confirmToken) == row
\* The data of the update that re-sends the confirmation: { confirmToken }
ResendData(row, confirmToken) == [row EXCEPT !.confirmToken = Some(confirmToken)]
\* The row a new subscriber gets.
NewSubscriber(id, email, confirmToken, unsubToken) ==
  [id |-> id, email |-> email, confirmed |-> FALSE, confirmToken |-> Some(confirmToken),
   unsubToken |-> unsubToken, createdAt |-> now, confirmedAt |-> Null, unsubAt |-> Null]

\* The rest of the handler, given its locals f: the branch chosen on what
\* findUnique returned, and its update or create.  The update fails when the
\* row is gone (P2025), the create when the e-mail is taken (P2002).
SubscribeFailed == Reply(500, "Failed to process subscription.", NoData)
PostNewsletterWriteOutcome(f) ==
  LET current == FindByEmail(f.email)
      t1 == generateToken(nextToken)
      t2 == generateToken(nextToken + 1)
      Same == [sub |-> newsletterSub, created |-> FALSE, reset |-> {}]
  IN IF ~IsNull(f.existing) /\ ~IsNull(f.existing[1].unsubAt)
       THEN \* previously unsubscribed: resubscribe
            IF IsNull(current) THEN [resp |-> SubscribeFailed, tokens |-> 2] @@ Same
            ELSE [resp |-> Reply(200, "resubscribed", NoData), tokens |-> 2,
                  sub |-> [newsletterSub EXCEPT ![current[1].id] =
                             ResubscribeData(current[1], t1, t2)],
                  created |-> FALSE, reset |-> {current[1].id}]
     ELSE IF ~IsNull(f.existing) /\ ~f.existing[1].confirmed
       THEN \* never confirmed: a new confirmation token
            IF IsNull(current) THEN [resp |-> SubscribeFailed, tokens |-> 1] @@ Same
            ELSE [resp |-> Reply(200, "confirmation_resent", NoData), tokens |-> 1,
                  sub |-> [newsletterSub EXCEPT ![current[1].id] = ResendData(current[1], t1)],
                  created |-> FALSE, reset |-> {}]
     ELSE \* brand new subscriber
          IF ~IsNull(current) THEN [resp |-> SubscribeFailed, tokens |-> 2] @@ Same
          ELSE [resp |-> Reply(201, "pending_confirmation", NoData), tokens |-> 2,
                sub |-> Insert(newsletterSub,
                               NewSubscriber(autoinc.newsletter, f.email, t1, t2)),
                created |-> TRUE, reset |-> {}]
PostNewsletterWrite(r) ==
  LET out == PostNewsletterWriteOutcome(inflight[r])
  IN /\ inflight[r].pc = "subscribe"
     /\ nextToken + out.tokens - 1 <= MaxTokens
     /\ out.created => autoinc.newsletter <= MaxSubs
     /\ inflight' = [inflight EXCEPT ![r] = Idle]
     /\ nextToken' = nextToken + out.tokens
     /\ newsletterSub' = out.sub
     /\ autoinc' = IF out.created THEN [autoinc EXCEPT !.newsletter = @ + 1] ELSE autoinc
     /\ clicked' = clicked \ out.reset
     /\ UNCHANGED <<panel, seed, env, now, issued, guestbookEntry, contactMessage, hits>>

\* ----------------------------------- GET /api/newsletter/confirm/:token
\* prisma.newsletterSub.findFirst({ where })
FindFirst(Matches(_)) ==
  LET ids == {i \in DOMAIN newsletterSub : Matches(newsletterSub[i])}
  IN IF ids = {} THEN Null ELSE Some(newsletterSub[CHOOSE i \in ids : \A j \in ids : i <= j])

ConfirmFindOutcome(ip, token) ==
  LET lim == RateLimit(hits, "general", ip)
      Matches(row) == row.confirmToken = Some(token) /\ ~row.confirmed
      sub == FindFirst(Matches)
  IN IF lim.blocked # "none"
       THEN [hits |-> lim.hits, resp |-> Some(TooMany(lim.blocked)), sub |-> Null]
     ELSE IF IsNull(sub)
       THEN [hits |-> lim.hits,
             resp |-> Some(Reply(404, "Invalid or expired confirmation link.", NoData)),
             sub |-> Null]
     ELSE [hits |-> lim.hits, resp |-> Null, sub |-> sub]
ConfirmFind(r, ip, token) ==
  LET out == ConfirmFindOutcome(ip, token)
  IN /\ inflight[r] = Idle
     /\ hits' = out.hits
     /\ inflight' = IF IsNull(out.sub) THEN inflight
                    ELSE [inflight EXCEPT ![r] = [pc |-> "confirm", id |-> out.sub[1].id,
                                                  token |-> token]]
     /\ clicked' = IF IsNull(out.sub) THEN clicked ELSE clicked \cup {out.sub[1].id}
     /\ UNCHANGED <<panel, seed, env, now, issued, tables, nextToken>>

\* Faulty variant of ConfirmUpdateOutcome: confirmToken is left in the row.
ConfirmUpdateKeepsToken(f) ==
  IF f.id \notin DOMAIN newsletterSub
    THEN [resp |-> Reply(500, "Failed to confirm subscription.", NoData),
          sub |-> newsletterSub]
  ELSE [resp |-> Reply(200, "confirmed", NoData),
        sub |-> [newsletterSub EXCEPT ![f.id] =
                   [@ EXCEPT !.confirmed = TRUE, !.confirmedAt = Some(now)]]]
\* prisma.newsletterSub.update({ where: { id: sub.id }, data })
ConfirmUpdateOutcome(f) ==
  IF f.id \notin DOMAIN newsletterSub
    THEN [resp |-> Reply(500, "Failed to confirm subscription.", NoData),
          sub |-> newsletterSub]
  ELSE [resp |-> Reply(200, "confirmed", NoData),
        sub |-> [newsletterSub EXCEPT ![f.id] =
                   [@ EXCEPT !.confirmed = TRUE, !.confirmedAt = Some(now),
                             !.confirmToken = Null]]]
ConfirmUpdate(r) ==
  /\ inflight[r].pc = "confirm"
  /\ inflight' = [inflight EXCEPT ![r] = Idle]
  /\ newsletterSub' = ConfirmUpdateOutcome(inflight[r]).sub
  /\ UNCHANGED <<panel, seed, env, now, issued, guestbookEntry, contactMessage, autoinc, nextToken, hits,
                 clicked>>

\* ------------------------------------------ DELETE /api/newsletter/:token
UnsubscribeFindOutcome(ip, token) ==
  LET lim == RateLimit(hits, "general", ip)
      Matches(row) == row.unsubToken = token /\ IsNull(row.unsubAt)
      sub == FindFirst(Matches)
  IN IF lim.blocked # "none"
       THEN [hits |-> lim.hits, resp |-> Some(TooMany(lim.blocked)), sub |-> Null]
     ELSE IF IsNull(sub)
       THEN [hits |-> lim.hits,
             resp |-> Some(Reply(404, "Invalid unsubscribe link or already unsubscribed.",
                                 NoData)),
             sub |-> Null]
     ELSE [hits |-> lim.hits, resp |-> Null, sub |-> sub]
UnsubscribeFind(r, ip, token) ==
  LET out == UnsubscribeFindOutcome(ip, token)
  IN /\ inflight[r] = Idle
     /\ hits' = out.hits
     /\ inflight' = IF IsNull(out.sub) THEN inflight
                    ELSE [inflight EXCEPT ![r] = [pc |-> "unsubscribe", id |-> out.sub[1].id]]
     /\ UNCHANGED <<panel, seed, env, now, issued, tables, nextToken, clicked>>

\* Faulty variant of UnsubscribeUpdateOutcome: the row is deleted.
UnsubscribeUpdateDeletes(f) ==
  IF f.id \notin DOMAIN newsletterSub
    THEN [resp |-> Reply(500, "Failed to process unsubscription.", NoData),
          sub |-> newsletterSub]
  ELSE [resp |-> Reply(200, "unsubscribed", NoData), sub |-> Remove(newsletterSub, f.id)]
\* prisma.newsletterSub.update({ where: { id: sub.id }, data: { unsubAt } })
UnsubscribeUpdateOutcome(f) ==
  IF f.id \notin DOMAIN newsletterSub
    THEN [resp |-> Reply(500, "Failed to process unsubscription.", NoData),
          sub |-> newsletterSub]
  ELSE [resp |-> Reply(200, "unsubscribed", NoData),
        sub |-> [newsletterSub EXCEPT ![f.id].unsubAt = Some(now)]]
UnsubscribeUpdate(r) ==
  /\ inflight[r].pc = "unsubscribe"
  /\ inflight' = [inflight EXCEPT ![r] = Idle]
  /\ newsletterSub' = UnsubscribeUpdateOutcome(inflight[r]).sub
  /\ UNCHANGED <<panel, seed, env, now, issued, guestbookEntry, contactMessage, autoinc, nextToken, hits,
                 clicked>>

\* ------------------------------------------- the middleware of the app
\* An error handed to next(err) or thrown: its message and its status
\* property (0 when it has none).
Error(message, status) == [message |-> message, status |-> status]
Passed == [ok |-> TRUE, err |-> Error("", 0)]
Failed(err) == [ok |-> FALSE, err |-> err]

\* The Origin header of a request; "" when the request has none.
Origins == {"", "http://localhost:5173", "https://evil.example"}
\* allowedOrigins, ALLOWED_ORIGINS being unset
allowedOrigins == {"http://localhost:5173", "http://localhost:3000"}
\* `CORS blocked: ${origin} is not allowed`
CorsBlocked(origin) ==
  CASE origin = "https://evil.example" -> "CORS blocked: https://evil.example is not allowed"
    [] origin = "http://localhost:5173" -> "CORS blocked: http://localhost:5173 is not allowed"
    [] OTHER -> "CORS blocked:  is not allowed"
\* The origin callback of cors()
Cors(origin) ==
  IF origin = "" THEN Passed
  ELSE IF origin \in allowedOrigins THEN Passed
  ELSE Failed(Error(CorsBlocked(origin), 0))

\* The bytes of a request body: JSON text, text that JSON.parse rejects, or
\* more than the limit.
RawBodies == {"json", "malformed", "over10kb"}
\* express.json({ limit: "10kb" }): body-parser passes on an error that
\* carries the parser's message and a status.
ExpressJson(raw) ==
  CASE raw = "json" -> Passed
    [] raw = "malformed" -> Failed(Error("Unexpected token } in JSON at position 1", 400))
    [] raw = "over10kb" -> Failed(Error("request entity too large", 413))

\* Faulty variant of ErrorHandler: the message is sent whatever NODE_ENV is.
ErrorHandlerVerbose(err) ==
  Reply(IF err.status # 0 THEN err.status ELSE 500, err.message, NoData)
\* The global error handler: app.use((err, req, res, next) => ...)
ErrorHandler(err) ==
  Reply(IF err.status # 0 THEN err.status ELSE 500,
        IF env.NODE_ENV = "production" THEN "Internal server error" ELSE err.message,
        NoData)

\* The error bcrypt.compare rejects with when the data is not a string,
\* caught by the catch block of the login handler.
BcryptError == Error("data must be a string or Buffer and hash must be a string", 0)
\* The error the login handler catches, if any.
LoginCaught(username, password) ==
  IF /\ env.ADMIN_PASSWORD_HASH # NoHash /\ env.JWT_SECRET # ""
     /\ Truthy(username) /\ Truthy(password)
     /\ UsernameMatches(username)
     /\ BcryptCompare(password, env.ADMIN_PASSWORD_HASH) = "throw"
    THEN Some(BcryptError)
  ELSE Null

\* A request to POST /api/admin/login as the app handles it: cors, then
\* express.json, then the route.  `err` is the error that was raised on
\* the way, and `global` tells whether it reached the global handler.
AppLoginOutcome(ip, origin, raw, username, password) ==
  LET c == Cors(origin)
      j == ExpressJson(raw)
      out == LoginOutcome(ip, username, password)
  IN IF ~c.ok THEN [hits |-> hits, resp |-> ErrorHandler(c.err), err |-> Some(c.err),
                     global |-> TRUE]
     ELSE IF ~j.ok THEN [hits |-> hits, resp |-> ErrorHandler(j.err), err |-> Some(j.err),
                          global |-> TRUE]
     ELSE [hits |-> out.hits, resp |-> out.resp,
           err |-> IF out.resp.status = 429 THEN Null ELSE LoginCaught(username, password),
           global |-> FALSE]
AppLogin(ip, origin, raw, username, password) ==
  LET out == AppLoginOutcome(ip, origin, raw, username, password)
  IN /\ hits' = out.hits
     /\ issued' = IF out.resp.status = 200 THEN issued \cup {out.resp.data.token} ELSE issued
     /\ UNCHANGED <<panel, seed, env, now, tables, nextToken, inflight, clicked>>

\* A request to POST /api/guestbook as the app handles it.
AppPostGuestbookOutcome(ip, origin, raw, body) ==
  LET c == Cors(origin)
      j == ExpressJson(raw)
      out == PostGuestbookOutcome(ip, body)
  IN IF ~c.ok THEN [hits |-> hits, resp |-> ErrorHandler(c.err), err |-> Some(c.err),
                     global |-> TRUE, created |-> Null]
     ELSE IF ~j.ok THEN [hits |-> hits, resp |-> ErrorHandler(j.err), err |-> Some(j.err),
                          global |-> TRUE, created |-> Null]
     ELSE [hits |-> out.hits, resp |-> out.resp, err |-> Null, global |-> FALSE,
           created |-> out.created]
AppPostGuestbook(ip, origin, raw, body) ==
  LET out == AppPostGuestbookOutcome(ip, origin, raw, body)
  IN /\ hits' = out.hits
     /\ IF IsNull(out.created) THEN UNCHANGED tables
        ELSE /\ autoinc.guestbook <= MaxEntries
             /\ guestbookEntry' = Insert(guestbookEntry, out.created[1])
             /\ autoinc' = [autoinc EXCEPT !.guestbook = @ + 1]
             /\ UNCHANGED <<newsletterSub, contactMessage>>
     /\ UNCHANGED <<panel, seed, env, now, issued, nextToken, inflight, clicked>>

\* ---------------------------------------------------------- prisma/seed.js
\* A string that is not a digest, as stored in ipHash by the seed script.
Plain(text) == [text |-> text]
\* SEED_ENTRIES.  The dates lie before the start of the server's clock; a
\* character outside ASCII is written as its code point.
SEED_ENTRIES ==
  << [name |-> <<"A", "d", "i", "n", "a">>,
      message |-> <<"S", "o", " ", "p", "r", "o", "u", "d", " ", "o", "f", " ", "h", "o", "w",
                    " ", "f", "a", "r", " ", "y", "o", "u", "'", "v", "e", " ", "c", "o", "m",
                    "e", ".", " ", "U+1F49C">>,
      createdAt |-> -1],
     [name |-> <<"G", "a", "l", "y", "a">>,
      message |-> <<"U+0411", "U+0440", "U+0430", "U+0432", "U+043E", ",", " ", "U+0441",
                    "U+0438", "U+043D", "U+0435", " ", "U+043C", "U+043E", "U+0439", "!", " ",
                    "(", "B", "r", "a", "v", "o", ",", " ", "m", "y", " ", "s", "o", "n", "!",
                    ")">>,
      createdAt |-> -2],
     [name |-> <<"K", "e", "e", "g", "a", "n">>,
      message |-> <<"T", "h", "e", " ", "c", "y", "b", "e", "r", "s", "e", "c", "u", "r", "i",
                    "t", "y", " ", "s", "i", "t", "e", " ", "i", "s", " ", "S", "O", " ", "C",
                    "O", "O", "L", "!">>,
      createdAt |-> -3] >>

\* Faulty variant of SeedExisting: the lookup never finds a row.
SeedExistingNever(table, entry) == FALSE
\* findFirst({ where: { name, message } }): whether a row was found
SeedExisting(table, entry) ==
  \E i \in DOMAIN table : table[i].name = entry.name /\ table[i].message = entry.message
\* create({ data: { ...entry, visible: true, ipHash: "seed" } }), the row
\* getting the next id of the sequence
SeedRow(id, entry) ==
  [id |-> id, name |-> entry.name, message |-> entry.message, ipHash |-> Plain("seed"),
   visible |-> TRUE, createdAt |-> entry.createdAt]
\* One turn of the loop of main(), run without interruption on a table and
\* its sequence: the entry is skipped when it exists and created otherwise.
SeedEntry(db, entry) ==
  IF SeedExisting(db.table, entry) THEN db
  ELSE [table |-> Insert(db.table, SeedRow(db.next, entry)), next |-> db.next + 1]
\* main() run from the k-th entry on, without interruption.
RECURSIVE SeedFrom(_, _)
SeedFrom(db, k) ==
  IF k > Len(SEED_ENTRIES) THEN db ELSE SeedFrom(SeedEntry(db, SEED_ENTRIES[k]), k + 1)
SeedMain(db) == SeedFrom(db, 1)

\* The script as it runs next to the server, one step per database call.
\* `node prisma/seed.js` is started.
SeedStart ==
  /\ seed = Idle
  /\ seed' = [pc |-> "findFirst", i |-> 1]
  /\ UNCHANGED <<panel, env, now, issued, tables, nextToken, hits, inflight, clicked>>
\* The script goes on to the next entry, or ends after the last.
SeedNext(i) == IF i < Len(SEED_ENTRIES) THEN [pc |-> "findFirst", i |-> i + 1] ELSE Idle
SeedFindFirst ==
  /\ seed.pc = "findFirst"
  /\ seed' = IF SeedExisting(guestbookEntry, SEED_ENTRIES[seed.i])
               THEN SeedNext(seed.i)
               ELSE [pc |-> "create", i |-> seed.i]
  /\ UNCHANGED <<panel, env, now, issued, tables, nextToken, hits, inflight, clicked>>
SeedCreate ==
  /\ seed.pc = "create"
  /\ autoinc.guestbook <= MaxEntries + MaxSeeded
  /\ guestbookEntry' = Insert(guestbookEntry, SeedRow(autoinc.guestbook, SEED_ENTRIES[seed.i]))
  /\ autoinc' = [autoinc EXCEPT !.guestbook = @ + 1]
  /\ seed' = SeedNext(seed.i)
  /\ UNCHANGED <<panel, env, now, issued, newsletterSub, contactMessage, nextToken, hits, inflight,
                 clicked>>

\* ------------------------------------------------------------ /api/admin
\* A route behind a guard: the guard's refusal, or the handler's outcome.
\* `next` tells whether the guard called next(), i.e. the handler ran.
Refused(a, table) ==
  [resp |-> Reply(a.status, a.error, NoData), next |-> FALSE, table |-> table]
Handled(resp, table) == [resp |-> resp, next |-> TRUE, table |-> table]

\* Faulty variant of deleteGuestbookGuard: no middleware before the handler.
Unguarded(h) == AuthOk(Garbage)
\* The middleware in front of router.delete("/guestbook/:id")
deleteGuestbookGuard(h) == requireAdmin(h)

\* GET /api/admin/verify
AdminVerifyOutcome(h) ==
  LET a == requireAdmin(h)
  IN IF a.status # 200 THEN Refused(a, <<>>)
     ELSE Handled(Reply(200, "", [valid |-> TRUE, username |-> a.admin.username]), <<>>)
AdminVerify(h) ==
  LET out == AdminVerifyOutcome(h)
  IN UNCHANGED vars

\* GET /api/admin/stats, its six counts taken together
AdminStatsOutcome(h) ==
  LET a == requireAdmin(h)
      Count1(table, P(_)) == Cardinality({i \in DOMAIN table : P(table[i])})
      All(row) == TRUE
      Visible(row) == row.visible
      Confirmed(row) == row.confirmed
      Unread(row) == ~row.read
  IN IF a.status # 200 THEN Refused(a, <<>>)
     ELSE Handled(Reply(200, "",
                        [guestbook |-> [total |-> Count1(guestbookEntry, All),
                                        visible |-> Count1(guestbookEntry, Visible)],
                         newsletter |-> [total |-> Count1(newsletterSub, All),
                                         confirmed |-> Count1(newsletterSub, Confirmed)],
                         contacts |-> [total |-> Count1(contactMessage, All),
                                       unread |-> Count1(contactMessage, Unread)]]), <<>>)
AdminStats(h) ==
  LET out == AdminStatsOutcome(h)
  IN UNCHANGED vars

\* GET /api/admin/stats step by step: Promise.all starts six count queries,
\* each of which the database answers on its own, in any order, from the
\* rows there are at that moment; the response is sent when all six are in.
StatCounts == {"guestbookTotal", "guestbookVisible", "newsletterTotal",
               "newsletterConfirmed", "contactsTotal", "contactsUnread"}
NotCountedYet == -1
StatCount(k) ==
  CASE k = "guestbookTotal" -> Cardinality(DOMAIN guestbookEntry)
    [] k = "guestbookVisible" ->
         Cardinality({i \in DOMAIN guestbookEntry : guestbookEntry[i].visible})
    [] k = "newsletterTotal" -> Cardinality(DOMAIN newsletterSub)
    [] k = "newsletterConfirmed" ->
         Cardinality({i \in DOMAIN newsletterSub : newsletterSub[i].confirmed})
    [] k = "contactsTotal" -> Cardinality(DOMAIN contactMessage)
    [] k = "contactsUnread" ->
         Cardinality({i \in DOMAIN contactMessage : ~contactMessage[i].read})
\* The body of the response, given the six counts.
StatsBody(c) ==
  [guestbook |-> [total |-> c["guestbookTotal"], visible |-> c["guestbookVisible"]],
   newsletter |-> [total |-> c["newsletterTotal"], confirmed |-> c["newsletterConfirmed"]],
   contacts |-> [total |-> c["contactsTotal"], unread |-> c["contactsUnread"]]]
AdminStatsStart(r, h) ==
  /\ inflight[r] = Idle
  /\ inflight' = IF requireAdmin(h).status # 200 THEN inflight
                 ELSE [inflight EXCEPT ![r] = [pc |-> "stats",
                                               counts |-> [k \in StatCounts |-> NotCountedYet]]]
  /\ UNCHANGED <<panel, seed, env, now, issued, tables, nextToken, hits, clicked>>
AdminStatsCount(r, k) ==
  /\ inflight[r].pc = "stats"
  /\ inflight[r].counts[k] = NotCountedYet
  /\ inflight' = [inflight EXCEPT ![r].counts[k] = StatCount(k)]
  /\ UNCHANGED <<panel, seed, env, now, issued, tables, nextToken, hits, clicked>>
\* All six counts are in.
StatsCounted(r) ==
  inflight[r].pc = "stats" /\ \A k \in StatCounts : inflight[r].counts[k] # NotCountedYet
AdminStatsReplyOutcome(f) == Handled(Reply(200, "", StatsBody(f.counts)), <<>>)
AdminStatsReply(r) ==
  /\ StatsCounted(r)
  /\ inflight' = [inflight EXCEPT ![r] = Idle]
  /\ UNCHANGED <<panel, seed, env, now, issued, tables, nextToken, hits, clicked>>

\* GET /api/admin/guestbook, /newsletter, /contacts: every row of the table,
\* `rows` being the order findMany returned them in.
AllRows(table) == OrderByCreatedAtDesc(table, DOMAIN table)
AdminListOutcome(h, table, rows, columns) ==
  LET a == requireAdmin(h)
  IN IF a.status # 200 THEN Refused(a, table)
     ELSE Handled(Reply(200, "", SelectMany(table, rows, columns)), table)
AdminGetGuestbookOutcome(h, rows) ==
  AdminListOutcome(h, guestbookEntry, rows,
                   {"id", "name", "message", "visible", "ipHash", "createdAt"})
AdminGetNewsletterOutcome(h, rows) ==
  AdminListOutcome(h, newsletterSub, rows,
                   {"id", "email", "confirmed", "createdAt", "confirmedAt", "unsubAt"})
AdminGetContactsOutcome(h, rows) ==
  AdminListOutcome(h, contactMessage, rows,
                   {"id", "name", "email", "subject", "message", "read", "createdAt"})
AdminGetGuestbook(h) ==
  \E rows \in AllRows(guestbookEntry) :
    LET out == AdminGetGuestbookOutcome(h, rows)
    IN UNCHANGED vars
AdminGetNewsletter(h) ==
  \E rows \in AllRows(newsletterSub) :
    LET out == AdminGetNewsletterOutcome(h, rows)
    IN UNCHANGED vars
AdminGetContacts(h) ==
  \E rows \in AllRows(contactMessage) :
    LET out == AdminGetContactsOutcome(h, rows)
    IN UNCHANGED vars

\* DELETE /api/admin/<table>/:id: prisma delete, P2025 when no row has the id
AdminDeleteOutcome(a, idParam, table, invalid, notFound, deleted) ==
  LET id == ParseInt(idParam)
  IN IF a.status # 200 THEN Refused(a, table)
     ELSE IF IsNaN(id) THEN Handled(Reply(400, invalid, NoData), table)
     ELSE IF id.n \notin DOMAIN table THEN Handled(Reply(404, notFound, NoData), table)
     ELSE Handled(Reply(200, deleted, [id |-> id.n]), Remove(table, id.n))
AdminDeleteGuestbookOutcome(h, idParam) ==
  AdminDeleteOutcome(deleteGuestbookGuard(h), idParam, guestbookEntry,
                     "Invalid entry ID.", "Entry not found.", "Entry permanently deleted.")
AdminDeleteNewsletterOutcome(h, idParam) ==
  AdminDeleteOutcome(requireAdmin(h), idParam, newsletterSub,
                     "Invalid subscriber ID.", "Subscriber not found.", "Subscriber removed.")
AdminDeleteContactOutcome(h, idParam) ==
  AdminDeleteOutcome(requireAdmin(h), idParam, contactMessage,
                     "Invalid message ID.", "Message not found.", "Contact message deleted.")
AdminDeleteGuestbook(h, idParam) ==
  /\ guestbookEntry' = AdminDeleteGuestbookOutcome(h, idParam).table
  /\ UNCHANGED <<panel, seed, env, now, issued, newsletterSub, contactMessage, autoinc, nextToken, hits,
                 inflight, clicked>>
AdminDeleteNewsletter(h, idParam) ==
  /\ newsletterSub' = AdminDeleteNewsletterOutcome(h, idParam).table
  /\ UNCHANGED <<panel, seed, env, now, issued, guestbookEntry, contactMessage, autoinc, nextToken, hits,
                 inflight, clicked>>
AdminDeleteContact(h, idParam) ==
  /\ contactMessage' = AdminDeleteContactOutcome(h, idParam).table
  /\ UNCHANGED <<panel, seed, env, now, issued, guestbookEntry, newsletterSub, autoinc, nextToken, hits,
                 inflight, clicked>>

\* PATCH /api/admin/<table>/:id, up to the answer of findUnique: the
\* response, or none yet and the row found.
AdminPatchFindOutcome(h, idParam, table, invalid, notFound) ==
  LET a == requireAdmin(h)
      id == ParseInt(idParam)
  IN IF a.status # 200 THEN Refused(a, table) @@ [found |-> Null]
     ELSE IF IsNaN(id) THEN Handled(Reply(400, invalid, NoData), table) @@ [found |-> Null]
     ELSE IF id.n \notin DOMAIN table
       THEN Handled(Reply(404, notFound, NoData), table) @@ [found |-> Null]
     ELSE Handled(Reply(0, "", NoData), table) @@ [found |-> Some(table[id.n])]
AdminPatchGuestbookFindOutcome(h, idParam) ==
  AdminPatchFindOutcome(h, idParam, guestbookEntry, "Invalid entry ID.", "Entry not found.")
AdminPatchContactFindOutcome(h, idParam) ==
  AdminPatchFindOutcome(h, idParam, contactMessage, "Invalid message ID.", "Message not found.")
AdminPatchGuestbookFind(r, h, idParam) ==
  LET out == AdminPatchGuestbookFindOutcome(h, idParam)
  IN /\ inflight[r] = Idle
     /\ inflight' = IF IsNull(out.found) THEN inflight
                    ELSE [inflight EXCEPT ![r] = [pc |-> "patchGuestbook", admin |-> requireAdmin(h).admin,
                                                  id |-> out.found[1].id,
                                                  flag |-> out.found[1].visible]]
     /\ UNCHANGED <<panel, seed, env, now, issued, tables, nextToken, hits, clicked>>
AdminPatchContactFind(r, h, idParam) ==
  LET out == AdminPatchContactFindOutcome(h, idParam)
  IN /\ inflight[r] = Idle
     /\ inflight' = IF IsNull(out.found) THEN inflight
                    ELSE [inflight EXCEPT ![r] = [pc |-> "patchContact", admin |-> requireAdmin(h).admin,
                                                  id |-> out.found[1].id,
                                                  flag |-> out.found[1].read]]
     /\ UNCHANGED <<panel, seed, env, now, issued, tables, nextToken, hits, clicked>>

\* The rest of PATCH /api/admin/guestbook/:id: the update with the flag the
\* handler read, negated (P2025 when the row is gone).
\* Faulty variant of AdminPatchGuestbookUpdateOn: the entry is hidden, not
\* toggled.
AdminPatchGuestbookHides(table, f) ==
  IF f.id \notin DOMAIN table
    THEN Handled(Reply(500, "Failed to update entry.", NoData), table)
  ELSE Handled(Reply(200, "Entry is now hidden.",
                     [id |-> f.id, name |-> table[f.id].name, visible |-> FALSE]),
               [table EXCEPT ![f.id].visible = FALSE])
AdminPatchGuestbookUpdateOn(table, f) ==
  IF f.id \notin DOMAIN table
    THEN Handled(Reply(500, "Failed to update entry.", NoData), table)
  ELSE Handled(Reply(200, IF ~f.flag THEN "Entry is now visible." ELSE "Entry is now hidden.",
                     [id |-> f.id, name |-> table[f.id].name, visible |-> ~f.flag]),
               [table EXCEPT ![f.id].visible = ~f.flag])
AdminPatchGuestbookUpdateOutcome(f) == AdminPatchGuestbookUpdateOn(guestbookEntry, f)
\* The whole of PATCH /api/admin/guestbook/:id on a table, when no other
\* request runs between its findUnique and its update.
AdminPatchGuestbookCall(h, idParam, table) ==
  LET find == AdminPatchFindOutcome(h, idParam, table, "Invalid entry ID.", "Entry not found.")
  IN IF IsNull(find.found) THEN [resp |-> find.resp, next |-> find.next, table |-> find.table]
     ELSE AdminPatchGuestbookUpdateOn(table, [id |-> find.found[1].id,
                                              flag |-> find.found[1].visible])
AdminPatchGuestbookUpdate(r) ==
  /\ inflight[r].pc = "patchGuestbook"
  /\ inflight' = [inflight EXCEPT ![r] = Idle]
  /\ guestbookEntry' = AdminPatchGuestbookUpdateOutcome(inflight[r]).table
  /\ UNCHANGED <<panel, seed, env, now, issued, newsletterSub, contactMessage, autoinc, nextToken, hits,
                 clicked>>
\* The rest of PATCH /api/admin/contacts/:id
AdminPatchContactUpdateOutcome(f) ==
  IF f.id \notin DOMAIN contactMessage
    THEN Handled(Reply(500, "Failed to update message.", NoData), contactMessage)
  ELSE Handled(Reply(200, IF ~f.flag THEN "Marked as read." ELSE "Marked as unread.",
                     [id |-> f.id, read |-> ~f.flag]),
               [contactMessage EXCEPT ![f.id].read = ~f.flag])
AdminPatchContactUpdate(r) ==
  /\ inflight[r].pc = "patchContact"
  /\ inflight' = [inflight EXCEPT ![r] = Idle]
  /\ contactMessage' = AdminPatchContactUpdateOutcome(inflight[r]).table
  /\ UNCHANGED <<panel, seed, env, now, issued, guestbookEntry, newsletterSub, autoinc, nextToken, hits,
                 clicked>>

\* PATCH /api/admin/contacts/:id handled without interruption.
AdminPatchContactCall(h, idParam) ==
  LET find == AdminPatchFindOutcome(h, idParam, contactMessage, "Invalid message ID.",
                                    "Message not found.")
  IN IF IsNull(find.found) THEN [resp |-> find.resp, next |-> find.next, table |-> find.table]
     ELSE AdminPatchContactUpdateOutcome([id |-> find.found[1].id,
                                          flag |-> find.found[1].read])

\* ------------------------------------------------ the routes of the app
\* Bodies that pass and bodies that fail the validation of each form.
GoodGuestbookBody == [name |-> JStr(<<" ", "a", " ">>), message |-> JStr(<<"o">>)]
BadGuestbookBody == [name |-> JStr(<<"<", "b", ">">>), message |-> JStr(<<"o">>)]
GoodContactBody ==
  [name |-> JStr(<<"a">>), email |-> JStr(EmailA), subject |-> JStr(<<"o">>),
   message |-> JStr(<<"o">>)]
BadContactBody ==
  [name |-> JStr(<<" ">>), email |-> JStr(EmailA), subject |-> JStr(<<"o">>),
   message |-> JStr(<<"o">>)]
GoodNewsletterBody == [email |-> JStr(EmailA)]
BadNewsletterBody == [email |-> JStr(<<"a", "@", "b">>)]

\* A request: its method, the router its path is mounted under, and the rest
\* of the path.  "/nope" is a path no router has a route for.
Methods == {"GET", "POST"}
Mounts == {"health", "admin", "guestbook", "newsletter", "contact"}
Paths == {"/", "/login", "/verify", "/nope"}
Requests == [method : Methods, mount : Mounts, path : Paths]
\* Whether the router has a route for the method and the rest of the path
\* (of the admin router, the two routes that take no parameter and no row).
RouterHas(q) ==
  CASE q.mount = "health" -> q.method = "GET" /\ q.path = "/"
    [] q.mount = "admin" -> \/ q.method = "POST" /\ q.path = "/login"
                            \/ q.method = "GET" /\ q.path = "/verify"
    [] q.mount = "guestbook" -> q.path = "/"
    [] q.mount = "newsletter" -> q.method = "POST" /\ q.path = "/"
    [] q.mount = "contact" -> q.method = "POST" /\ q.path = "/"
\* Faulty variant of Exempt: only the health router is mounted before the
\* general limiter.
ExemptHealthOnly(q) == q.mount = "health" /\ RouterHas(q)
\* The request is answered by a router mounted before
\* app.use("/api", generalLimiter).  A router that has no route for the
\* request calls next(), and the request goes down the stack.
Exempt(q) == q.mount \in {"health", "admin"} /\ RouterHas(q)
\* The app's answer to a request that writes no row: a login with a wrong
\* password, a verify without a token, a form with a body that fails
\* validation, a read of the guestbook, or a path without a route, which
\* ends in the 404 handler.
AppOutcome(ip, q) ==
  IF Exempt(q)
    THEN CASE q.mount = "health" -> [hits |-> hits, resp |-> Reply(200, "ok", NoData)]
           [] q.path = "/login" ->
                LET out == LoginOutcome(ip, JStr(UserAdmin), JStr(PwBad))
                IN [hits |-> out.hits, resp |-> out.resp]
           [] OTHER -> [hits |-> hits, resp |-> AdminVerifyOutcome(NoHeader).resp]
  ELSE LET lim == RateLimit(hits, "general", ip)
       IN IF lim.blocked # "none" THEN [hits |-> lim.hits, resp |-> TooMany(lim.blocked)]
          ELSE IF ~RouterHas(q) \/ q.mount \in {"health", "admin"}
            THEN [hits |-> lim.hits, resp |-> Reply(404, "Route not found", NoData)]
          ELSE CASE q.mount = "guestbook" /\ q.method = "GET" ->
                      LET out == GetGuestbookOutcome(ip, CHOOSE e \in VisibleEntries : TRUE)
                      IN [hits |-> out.hits, resp |-> out.resp]
                 [] q.mount = "guestbook" /\ q.method = "POST" ->
                      LET out == PostGuestbookOutcome(ip, BadGuestbookBody)
                      IN [hits |-> out.hits, resp |-> out.resp]
                 [] q.mount = "newsletter" ->
                      LET out == PostNewsletterFindOutcome(ip, BadNewsletterBody)
                      IN [hits |-> out.hits, resp |-> out.resp[1]]
                 [] q.mount = "contact" ->
                      LET out == PostContactOutcome(ip, BadContactBody)
                      IN [hits |-> out.hits, resp |-> out.resp]
AppRequest(ip, q) ==
  /\ hits' = AppOutcome(ip, q).hits
  /\ UNCHANGED <<panel, seed, env, now, issued, tables, nextToken, inflight, clicked>>

\* --------------------------------------------- client/src/AdminPanel.jsx
\* Responses to DELETE requests the panel has not handled yet.
MaxPending == 1

\* The three tabs of the dashboard, i.e. the values of confirmDelete.type
Tabs == {"guestbook", "newsletter", "contact"}
Item(type, id) == [type |-> type, id |-> id]
Items == {Item(type, id) : type \in Tabs, id \in 1..(MaxEntries + MaxSubs)}
NoLists == [type \in Tabs |-> {}]
\* The four requests of fetchAll
Fetched == {"stats", "guestbook", "newsletter", "contacts"}

\* The panel before anyone has logged in: no token in the state of the
\* component or in sessionStorage, so the login screen is shown.  `listed`
\* holds the ids of the rows the dashboard shows in each tab, `verify` and
\* `fetch` the request of the verify effect and of fetchAll that are under
\* way, `responses` the answers to DELETE requests that have not been
\* handled.  History: `pressed` is the button of the dialog that the last
\* step of the panel pressed, if any ("reload" for the reload button of the
\* browser), and `refused` tells whether that step
\* handled a response with status 401.
Closed ==
  [token |-> Null, storage |-> Null, confirmDelete |-> Null, listed |-> NoLists,
   verify |-> Null, fetch |-> Null, responses |-> {},
   pressed |-> "none", refused |-> FALSE]

\* headers: Authorization: `Bearer ${token}`
Bearer(token) == Header("Bearer", <<token>>)
\* res.ok
ResOk(status) == status >= 200 /\ status <= 299
\* The dashboard is unmounted: its state is gone, and what its pending
\* requests do when they are answered (state updates of the unmounted
\* component, at most another handleLogout) no longer shows.
Unmount(p) ==
  [p EXCEPT !.confirmDelete = Null, !.listed = NoLists, !.verify = Null, !.fetch = Null,
            !.responses = {}]
\* handleLogout(), after which the login screen replaces the dashboard
handleLogout(p) == Unmount([p EXCEPT !.token = Null, !.storage = Null])
\* handleLogin(newToken), after which the dashboard mounts: the verify
\* effect and fetchAll send their requests.
handleLogin(p, newToken) ==
  [p EXCEPT !.token = Some(newToken), !.storage = Some(newToken),
            !.verify = Some(newToken),
            !.fetch = Some([token |-> newToken, status |-> [w \in Fetched |-> 0],
                            ids |-> NoLists])]
\* A step of the panel starts: the history of the last step is dropped.
Step(p, button) == [p EXCEPT !.pressed = button, !.refused = FALSE]

\* LoginScreen.handleSubmit: the form is sent, and a 2xx answer with a
\* token logs the panel in.
PanelLogin(ip, username, password) ==
  LET out == LoginOutcome(ip, username, password)
      p == Step(panel, "none")
  IN /\ IsNull(panel.token) /\ IsNull(panel.fetch) /\ IsNull(panel.verify)
     /\ hits' = out.hits
     /\ issued' = IF out.resp.status = 200 THEN issued \cup {out.resp.data.token} ELSE issued
     /\ panel' = IF ResOk(out.resp.status) /\ out.resp.data # NoData
                   THEN handleLogin(p, out.resp.data.token)
                 ELSE p
     /\ UNCHANGED <<seed, env, now, tables, nextToken, inflight, clicked>>

\* The page is loaded in the tab: useState restores the token from
\* sessionStorage, every other piece of state starts empty, and the requests
\* of the page before are gone.  With a token the dashboard mounts, and the
\* verify effect and fetchAll send their requests; without one the effect
\* returns at once and the login screen is shown.
PanelMount ==
  /\ panel' = IF IsNull(panel.storage) THEN Step(Closed, "reload")
              ELSE handleLogin(Step(Closed, "reload"), panel.storage[1])
  /\ UNCHANGED <<seed, env, now, issued, tables, nextToken, hits, inflight, clicked>>
\* Faulty variant of OnVerified: the token is kept whatever the answer.
OnVerifiedKeeps(p, status) == p
\* .then(res => { if (!res.ok) { setToken(null); removeItem("admin_token") } })
OnVerified(p, status) == IF ~ResOk(status) THEN handleLogout(p) ELSE p
\* The effect of AdminPanel that verifies the token: the server answers
\* GET /api/admin/verify and .then() clears the token unless res.ok.
PanelVerified ==
  /\ ~IsNull(panel.verify)
  /\ LET res == AdminVerifyOutcome(Bearer(panel.verify[1])).resp
         p == [Step(panel, "none") EXCEPT !.verify = Null, !.refused = (res.status = 401)]
     IN panel' = OnVerified(p, res.status)
  /\ UNCHANGED <<seed, env, now, issued, tables, nextToken, hits, inflight, clicked>>
\* The verify request fails on the network: fetch rejects, and .catch()
\* leaves the state as it is.
PanelVerifyFailed ==
  /\ ~IsNull(panel.verify)
  /\ panel' = [Step(panel, "none") EXCEPT !.verify = Null]
  /\ UNCHANGED <<seed, env, now, issued, tables, nextToken, hits, inflight, clicked>>

\* The ids of the rows of a list response; `x.entries || []` for a body
\* that carries no list.
IdsOf(resp) ==
  IF resp.status = 200 THEN {resp.data[k].id : k \in DOMAIN resp.data} ELSE {}
\* The Refresh button: fetchAll sends its four requests.
PanelRefresh ==
  /\ ~IsNull(panel.token) /\ IsNull(panel.fetch)
  /\ panel' = [Step(panel, "none") EXCEPT
                 !.fetch = Some([token |-> panel.token[1], status |-> [w \in Fetched |-> 0],
                                 ids |-> NoLists])]
  /\ UNCHANGED <<seed, env, now, issued, tables, nextToken, hits, inflight, clicked>>
\* The server answers one of the four requests of fetchAll.
FetchedOutcome(w, h, rows) ==
  CASE w = "stats" -> AdminStatsOutcome(h)
    [] w = "guestbook" -> AdminGetGuestbookOutcome(h, rows)
    [] w = "newsletter" -> AdminGetNewsletterOutcome(h, rows)
    [] w = "contacts" -> AdminGetContactsOutcome(h, rows)
FetchedTable(w) ==
  CASE w = "stats" -> <<>>
    [] w = "guestbook" -> guestbookEntry
    [] w = "newsletter" -> newsletterSub
    [] w = "contacts" -> contactMessage
TabOf(w) == IF w = "contacts" THEN "contact" ELSE w
PanelFetched(w) ==
  /\ ~IsNull(panel.fetch)
  /\ panel.fetch[1].status[w] = 0
  /\ \E rows \in AllRows(FetchedTable(w)) :
       LET f == panel.fetch[1]
           res == FetchedOutcome(w, Bearer(f.token), rows).resp
       IN panel' = [Step(panel, "none") EXCEPT
                      !.fetch = Some([f EXCEPT !.status[w] = res.status,
                                               !.ids = IF w = "stats" THEN @
                                                       ELSE [@ EXCEPT ![TabOf(w)] = IdsOf(res)]])]
  /\ UNCHANGED <<seed, env, now, issued, tables, nextToken, hits, inflight, clicked>>
\* fetchAll: if (statsRes.status === 401 || gbRes.status === 401)
SessionEnded(status) == status["stats"] = 401 \/ status["guestbook"] = 401
\* fetchAll after Promise.all: the four answers are there.
PanelFetchAll ==
  /\ ~IsNull(panel.fetch)
  /\ \A w \in Fetched : panel.fetch[1].status[w] # 0
  /\ LET f == panel.fetch[1]
         p == [Step(panel, "none") EXCEPT
                 !.fetch = Null, !.refused = (\E w \in Fetched : f.status[w] = 401)]
     IN panel' = IF SessionEnded(f.status) THEN handleLogout(p)
                 ELSE IF panel.token = Some(f.token) THEN [p EXCEPT !.listed = f.ids]
                 ELSE p
  /\ UNCHANGED <<seed, env, now, issued, tables, nextToken, hits, inflight, clicked>>

\* The rows and their buttons are rendered unless `loading`, which is true
\* from the start of fetchAll to its end.
Rendered(type, id) == ~IsNull(panel.token) /\ IsNull(panel.fetch) /\ id \in panel.listed[type]
\* toggleGuestbookVisibility(id), request and answer in one step
PanelToggleGuestbook(id) ==
  /\ Rendered("guestbook", id)
  /\ LET out == AdminPatchGuestbookCall(Bearer(panel.token[1]), Decimal(id), guestbookEntry)
         p == [Step(panel, "none") EXCEPT !.refused = (out.resp.status = 401)]
     IN /\ guestbookEntry' = out.table
        /\ panel' = IF out.resp.status = 401 THEN handleLogout(p) ELSE p
  /\ UNCHANGED <<seed, env, now, issued, newsletterSub, contactMessage, autoinc, nextToken,
                 hits, inflight, clicked>>
\* toggleContactRead(id), request and answer in one step
PanelToggleContact(id) ==
  /\ Rendered("contact", id)
  /\ LET out == AdminPatchContactCall(Bearer(panel.token[1]), Decimal(id))
         p == [Step(panel, "none") EXCEPT !.refused = (out.resp.status = 401)]
     IN /\ contactMessage' = out.table
        /\ panel' = IF out.resp.status = 401 THEN handleLogout(p) ELSE p
  /\ UNCHANGED <<seed, env, now, issued, guestbookEntry, newsletterSub, autoinc, nextToken,
                 hits, inflight, clicked>>

\* The Delete button of a row: setConfirmDelete({ type, id, message })
PanelDelete(type, id) ==
  /\ Rendered(type, id)
  /\ panel' = [Step(panel, "none") EXCEPT !.confirmDelete = Some(Item(type, id))]
  /\ UNCHANGED <<seed, env, now, issued, tables, nextToken, hits, inflight, clicked>>
\* ConfirmDialog.onCancel
PanelCancel ==
  /\ ~IsNull(panel.confirmDelete)
  /\ panel' = [Step(panel, "cancel") EXCEPT !.confirmDelete = Null]
  /\ UNCHANGED <<seed, env, now, issued, tables, nextToken, hits, inflight, clicked>>
\* Faulty variant of OnConfirm: the subscriber's dialog deletes a contact.
OnConfirmMixed(item) ==
  IF item.type = "guestbook" THEN Item("guestbook", item.id)
  ELSE IF item.type = "newsletter" THEN Item("contact", item.id)
  ELSE Item("contact", item.id)
\* ConfirmDialog.onConfirm: the delete function the dialog calls, and its
\* argument
OnConfirm(item) ==
  IF item.type = "guestbook" THEN Item("guestbook", item.id)
  ELSE IF item.type = "newsletter" THEN Item("newsletter", item.id)
  ELSE Item("contact", item.id)
\* deleteGuestbookEntry, deleteSubscriber, deleteContact up to the await:
\* the server's answer to the DELETE request
DeleteOutcome(q, h) ==
  CASE q.type = "guestbook" -> AdminDeleteGuestbookOutcome(h, Decimal(q.id))
    [] q.type = "newsletter" -> AdminDeleteNewsletterOutcome(h, Decimal(q.id))
    [] q.type = "contact" -> AdminDeleteContactOutcome(h, Decimal(q.id))
\* The Confirm button of the dialog: the request is sent and answered.
PanelConfirm ==
  /\ ~IsNull(panel.confirmDelete) /\ ~IsNull(panel.token)
  /\ LET q == OnConfirm(panel.confirmDelete[1])
         out == DeleteOutcome(q, Bearer(panel.token[1]))
     IN /\ Cardinality(panel.responses) < MaxPending
        /\ guestbookEntry' = IF q.type = "guestbook" THEN out.table ELSE guestbookEntry
        /\ newsletterSub' = IF q.type = "newsletter" THEN out.table ELSE newsletterSub
        /\ contactMessage' = IF q.type = "contact" THEN out.table ELSE contactMessage
        /\ panel' = [Step(panel, "confirm") EXCEPT
                       !.responses = @ \cup {[item |-> q, status |-> out.resp.status]}]
  /\ UNCHANGED <<seed, env, now, issued, autoinc, nextToken, hits, inflight, clicked>>
\* The delete functions after the await: 401 logs out and returns; else
\* the row leaves the list when res.ok, and the dialog is closed.
PanelDeleted(r) ==
  /\ r \in panel.responses
  /\ LET p == [Step(panel, "none") EXCEPT !.responses = @ \ {r},
                                                 !.refused = (r.status = 401)]
     IN panel' = IF r.status = 401 THEN handleLogout(p)
                 ELSE IF IsNull(panel.token) THEN p
                 ELSE [p EXCEPT !.confirmDelete = Null,
                                !.listed[r.item.type] =
                                  IF ResOk(r.status) THEN @ \ {r.item.id} ELSE @]
  /\ UNCHANGED <<seed, env, now, issued, tables, nextToken, hits, inflight, clicked>>
\* The Logout button
PanelLogout ==
  /\ ~IsNull(panel.token)
  /\ panel' = handleLogout(Step(panel, "none"))
  /\ UNCHANGED <<seed, env, now, issued, tables, nextToken, hits, inflight, clicked>>

\* ------------------------------------------------------ the specifications
Init ==
  /\ env \in Envs
  /\ now = 0
  /\ issued = {}
  /\ guestbookEntry = <<>>
  /\ newsletterSub = <<>>
  /\ contactMessage = <<>>
  /\ autoinc = [guestbook |-> 1, newsletter |-> 1, contact |-> 1]
  /\ nextToken = 1
  /\ hits = NoHits
  /\ inflight = [r \in Reqs |-> Idle]
  /\ seed = Idle
  /\ panel = Closed
  /\ clicked = {}

\* A client stops sending through the general limiter after MaxRequests
\* requests in a tick, and stops logging in after one attempt fewer.
Budget(ip) == hits["general"][ip] < MaxRequests
LoginBudget(ip) == hits["login"][ip] < MaxRequests - 1

\* The headers and route parameters the admin actions are explored with; the
\* properties of the guard range over all of Headers and IdParams.
SentHeaders ==
  {NoHeader, Header("Bearer", <<Forged>>)} \cup {Header("Bearer", <<t>>) : t \in issued}
SentIds == {<<"1">>, <<"1", "x">>, <<"x">>}

\* The admin specification: a visitor who fills in each form, the admin who
\* logs in with a right and a wrong password, and every admin route.
InitAdmin ==
  /\ Init
  /\ env.ADMIN_PASSWORD_HASH # NoHash
  /\ env.ADMIN_USERNAME = UserAdmin
Visitor ==
  \/ PostGuestbook("ip1", GoodGuestbookBody)
  \/ PostContact("ip1", GoodContactBody)
  \/ PostNewsletterFind("r1", "ip1", GoodNewsletterBody)
Next ==
  \/ Tick
  \/ \E p \in {JStr(PwGood), JStr(PwBad)} :
       LoginBudget("ip1") /\ Login("ip1", JStr(UserAdmin), p)
  \/ Budget("ip1") /\ Visitor
  \/ PostNewsletterWrite("r1")
  \/ \E h \in SentHeaders : AdminVerify(h)
  \/ \E h \in SentHeaders : AdminStats(h)
  \/ \E h \in SentHeaders : AdminGetGuestbook(h)
  \/ \E h \in SentHeaders : AdminGetNewsletter(h)
  \/ \E h \in SentHeaders : AdminGetContacts(h)
  \/ \E h \in SentHeaders, id \in SentIds : AdminDeleteGuestbook(h, id)
  \/ \E h \in SentHeaders, id \in SentIds : AdminDeleteNewsletter(h, id)
  \/ \E h \in SentHeaders, id \in SentIds : AdminDeleteContact(h, id)
  \/ \E h \in SentHeaders, id \in SentIds : AdminPatchGuestbookFind("r1", h, id)
  \/ \E h \in SentHeaders, id \in SentIds : AdminPatchContactFind("r1", h, id)
  \/ AdminPatchGuestbookUpdate("r1")
  \/ AdminPatchContactUpdate("r1")
Spec == InitAdmin /\ [][Next]_vars

\* The login specification: every combination of user name and password,
\* until the login limiter has refused MaxOver attempts.
LoginOver(ip) == hits["login"][ip] < loginMax + MaxOver
NextLogin ==
  \/ Tick
  \/ ResetWindow("login", "ip1")
  \/ \E u \in Usernames, p \in Passwords : LoginOver("ip1") /\ Login("ip1", u, p)
  \/ LoginBudget("ip2") /\ Login("ip2", JStr(UserAdminCap), JStr(PwGood))
SpecLogin == Init /\ [][NextLogin]_vars

\* The newsletter specification: two requests at a time, from one client,
\* on the subscribe, confirm and unsubscribe routes.
InitNews ==
  /\ Init
  /\ env.ADMIN_PASSWORD_HASH # NoHash
  /\ env.ADMIN_USERNAME = UserAdmin
  /\ env.JWT_SECRET # ""
NewsBudget(ip) == hits["general"][ip] < 2 * MaxRequests
NewsBodies == {GoodNewsletterBody, [email |-> JStr(<<"A", "@", "B", ".", "i", "o">>)],
               [email |-> JStr(<<" ">> \o EmailA \o <<" ">>)],
               [email |-> JStr(EmailX)], BadNewsletterBody}
NextNews ==
  \/ \E r \in Reqs, b \in NewsBodies : NewsBudget("ip1") /\ PostNewsletterFind(r, "ip1", b)
  \/ \E r \in Reqs : PostNewsletterWrite(r)
  \/ \E r \in Reqs, t \in TokenParams : NewsBudget("ip1") /\ ConfirmFind(r, "ip1", t)
  \/ \E r \in Reqs : ConfirmUpdate(r)
  \/ \E r \in Reqs, t \in TokenParams : NewsBudget("ip1") /\ UnsubscribeFind(r, "ip1", t)
  \/ \E r \in Reqs : UnsubscribeUpdate(r)
SpecNews == InitNews /\ [][NextNews]_vars

\* The limiter specification: each limiter driven MaxOver requests past its
\* cap, by one client on the login and guestbook routes and by another on
\* the newsletter and contact routes.  A client comes near the cap of the
\* general limiter by a burst of GET requests, none of which is refused.
Browse(h, ip, n) == [h EXCEPT !["general"][ip] = @ + n]
Burst(ip) ==
  LET n == generalMax - MaxRequests - hits["general"][ip]
  IN /\ n > 0
     /\ \A k \in 0..(n - 1) : RateLimit(Browse(hits, ip, k), "general", ip).blocked = "none"
     /\ hits' = Browse(hits, ip, n)
     /\ UNCHANGED <<panel, seed, env, now, issued, tables, nextToken, inflight, clicked>>
Over(l, ip) ==
  /\ hits[l][ip] < Max(l) + MaxOver
  /\ l # "login" => hits["general"][ip] < generalMax + MaxOver
NextLimit ==
  \/ Tick
  \/ Burst("ip1")
  \/ Over("general", "ip1") /\ hits["general"]["ip1"] >= generalMax - MaxRequests
       /\ GetGuestbook("ip1")
  \/ Over("guestbook", "ip1") /\ PostGuestbook("ip1", BadGuestbookBody)
  \/ Over("login", "ip1") /\ Login("ip1", JStr(UserAdmin), JStr(PwBad))
  \/ Over("newsletter", "ip2") /\ PostNewsletterFind("r1", "ip2", BadNewsletterBody)
  \/ Over("contact", "ip2") /\ PostContact("ip2", BadContactBody)
SpecLimit == InitNews /\ [][NextLimit]_vars

\* The public specification: visitors on every public route, next to an
\* admin who hides, marks and deletes.
NextPublic ==
  \/ hits["login"]["ip1"] < 1 /\ Login("ip1", JStr(UserAdmin), JStr(PwGood))
  \/ Budget("ip2") /\ GetGuestbook("ip2")
  \/ \E b \in {GoodGuestbookBody, BadGuestbookBody} : Budget("ip2") /\ PostGuestbook("ip2", b)
  \/ \E b \in {GoodContactBody, BadContactBody} : Budget("ip1") /\ PostContact("ip1", b)
  \/ \E b \in {GoodNewsletterBody, BadNewsletterBody} :
       Budget("ip1") /\ PostNewsletterFind("r1", "ip1", b)
  \/ PostNewsletterWrite("r1")
  \/ \E t \in TokenParams : Budget("ip1") /\ ConfirmFind("r1", "ip1", t)
  \/ ConfirmUpdate("r1")
  \/ \E t \in TokenParams : Budget("ip1") /\ UnsubscribeFind("r1", "ip1", t)
  \/ UnsubscribeUpdate("r1")
  \/ \E h \in SentHeaders : AdminGetGuestbook(h)
  \/ \E h \in SentHeaders, id \in SentIds : AdminDeleteGuestbook(h, id)
  \/ \E h \in SentHeaders, id \in SentIds : AdminDeleteContact(h, id)
  \/ \E h \in SentHeaders, id \in SentIds : AdminPatchGuestbookFind("r2", h, id)
  \/ \E h \in SentHeaders, id \in SentIds : AdminPatchContactFind("r2", h, id)
  \/ AdminPatchGuestbookUpdate("r2")
  \/ AdminPatchContactUpdate("r2")
SpecPublic == InitNews /\ [][NextPublic]_vars

\* The error specification: servers run with each value of NODE_ENV, and
\* clients that send from allowed and other origins, with bodies that parse
\* and bodies that do not, and with passwords that are not strings.
InitErrors ==
  /\ \E m \in Modes :
       env = [ADMIN_USERNAME |-> UserAdmin, ADMIN_PASSWORD_HASH |-> BcryptHash(PwGood),
              JWT_SECRET |-> "s3cret", NODE_ENV |-> m]
  /\ now = 0
  /\ issued = {}
  /\ guestbookEntry = <<>>
  /\ newsletterSub = <<>>
  /\ contactMessage = <<>>
  /\ autoinc = [guestbook |-> 1, newsletter |-> 1, contact |-> 1]
  /\ nextToken = 1
  /\ hits = NoHits
  /\ inflight = [r \in Reqs |-> Idle]
  /\ seed = Idle
  /\ panel = Closed
  /\ clicked = {}
NextErrors ==
  \/ Tick
  \/ \E o \in Origins, raw \in RawBodies, p \in {JStr(PwGood), JStr(PwBad), JNum} :
       LoginOver("ip1") /\ AppLogin("ip1", o, raw, JStr(UserAdmin), p)
  \/ \E o \in Origins, raw \in RawBodies, b \in {GoodGuestbookBody, BadGuestbookBody} :
       Budget("ip2") /\ AppPostGuestbook("ip2", o, raw, b)
SpecErrors == InitErrors /\ [][NextErrors]_vars

\* The panel specification: visitors fill in each of the three forms once,
\* before the admin logs in and the clock ticks; then the admin, who logs
\* in once, at the panel in one browser tab.
Early == issued = {} /\ now = 0
NextPanel ==
  \/ Tick
  \/ Early /\ autoinc.guestbook <= 1 /\ PostGuestbook("ip2", GoodGuestbookBody)
  \/ Early /\ autoinc.contact <= 1 /\ PostContact("ip2", GoodContactBody)
  \/ Early /\ autoinc.newsletter <= 1 /\ PostNewsletterFind("r1", "ip2", GoodNewsletterBody)
  \/ Early /\ PostNewsletterWrite("r1")
  \/ issued = {} /\ PanelLogin("ip1", JStr(UserAdmin), JStr(PwGood))
  \/ PanelMount
  \/ PanelVerified
  \/ PanelVerifyFailed
  \/ PanelRefresh
  \/ \E w \in Fetched : PanelFetched(w)
  \/ PanelFetchAll
  \/ \E id \in 1..MaxEntries : PanelToggleGuestbook(id)
  \/ \E id \in 1..MaxRows : PanelToggleContact(id)
  \/ \E q \in Items : PanelDelete(q.type, q.id)
  \/ PanelCancel
  \/ PanelConfirm
  \/ \E r \in panel.responses : PanelDeleted(r)
  \/ PanelLogout
SpecPanel == InitNews /\ [][NextPanel]_vars

\* The route specification: one client sends requests of every method to
\* every path, up to MaxOver requests past the cap of each limiter, after a
\* burst that brings it near the cap of the general limiter.
NextRoutes ==
  \/ Tick
  \/ Burst("ip1")
  \/ \E q \in Requests :
       /\ \A l \in Limiters : hits[l]["ip1"] < Max(l) + MaxOver
       /\ Exempt(q) \/ hits["general"]["ip1"] >= generalMax - MaxRequests
       /\ AppRequest("ip1", q)
SpecRoutes == InitNews /\ [][NextRoutes]_vars

\* The toggle specification: a visitor signs the guestbook and sends a
\* message, and the admin, logged in once, sends PATCH requests for that
\* entry and that message, two at a time, and deletes them.
NextToggle ==
  \/ Tick
  \/ hits["login"]["ip1"] < 1 /\ Login("ip1", JStr(UserAdmin), JStr(PwGood))
  \/ autoinc.guestbook <= 1 /\ PostGuestbook("ip2", GoodGuestbookBody)
  \/ autoinc.contact <= 1 /\ PostContact("ip2", GoodContactBody)
  \/ \E r \in Reqs, h \in SentHeaders : AdminPatchGuestbookFind(r, h, <<"1">>)
  \/ \E r \in Reqs : AdminPatchGuestbookUpdate(r)
  \/ \E r \in Reqs, h \in SentHeaders : AdminPatchContactFind(r, h, <<"1">>)
  \/ \E r \in Reqs : AdminPatchContactUpdate(r)
  \/ \E h \in SentHeaders : AdminDeleteGuestbook(h, <<"1">>)
  \/ \E h \in SentHeaders : AdminDeleteContact(h, <<"1">>)
SpecToggle == InitNews /\ [][NextToggle]_vars

\* The stats specification: the admin, logged in once, asks for the stats
\* while a visitor signs the guestbook, sends a message and subscribes, and
\* while the admin hides and deletes the entry and marks the message.
NextStats ==
  \/ hits["login"]["ip1"] < 1 /\ Login("ip1", JStr(UserAdmin), JStr(PwGood))
  \/ autoinc.guestbook <= 1 /\ PostGuestbook("ip2", GoodGuestbookBody)
  \/ autoinc.contact <= 1 /\ PostContact("ip2", GoodContactBody)
  \/ autoinc.newsletter <= 1 /\ PostNewsletterFind("r2", "ip2", GoodNewsletterBody)
  \/ PostNewsletterWrite("r2")
  \/ hits["general"]["ip2"] < MaxRequests + 1 /\ ConfirmFind("r2", "ip2", 1)
  \/ ConfirmUpdate("r2")
  \/ \E h \in SentHeaders : AdminStatsStart("r1", h)
  \/ \E k \in StatCounts : AdminStatsCount("r1", k)
  \/ AdminStatsReply("r1")
  \/ \E h \in SentHeaders : AdminPatchGuestbookFind("r2", h, <<"1">>)
  \/ AdminPatchGuestbookUpdate("r2")
  \/ \E h \in SentHeaders : AdminPatchContactFind("r2", h, <<"1">>)
  \/ AdminPatchContactUpdate("r2")
  \/ \E h \in SentHeaders : AdminDeleteGuestbook(h, <<"1">>)
SpecStats == InitNews /\ [][NextStats]_vars

\* The guestbook specification: the seed script run any number of times,
\* visitors who sign (one of them in the words of a seed entry) and read the
\* guestbook, and the admin who lists, hides and deletes entries.
SeedBody == [name |-> JStr(SEED_ENTRIES[1].name), message |-> JStr(SEED_ENTRIES[1].message)]
EntryIds == {<<"1">>, <<"3">>}
NextGuestbook ==
  \/ Tick
  \/ hits["login"]["ip1"] < 1 /\ Login("ip1", JStr(UserAdmin), JStr(PwGood))
  \/ SeedStart
  \/ SeedFindFirst
  \/ SeedCreate
  \/ \E b \in {SeedBody, GoodGuestbookBody} : Budget("ip2") /\ PostGuestbook("ip2", b)
  \/ Budget("ip2") /\ GetGuestbook("ip2")
  \/ \E h \in SentHeaders : AdminGetGuestbook(h)
  \/ \E h \in SentHeaders, id \in EntryIds : AdminPatchGuestbookFind("r1", h, id)
  \/ AdminPatchGuestbookUpdate("r1")
  \/ \E h \in SentHeaders, id \in EntryIds : AdminDeleteGuestbook(h, id)
SpecGuestbook == InitNews /\ [][NextGuestbook]_vars

\* ---------------------------------------------------------------- claims
\* What the claims speak of, said without the code's own checks.
\* A token that POST /admin/login issued and that has not expired.
TokenCurrent(tok) == tok \in issued /\ now < tok.exp
\* "Authorization: Bearer <token>" with such a token.
CarriesValidToken(h) == h.scheme = "Bearer" /\ h.rest # <<>> /\ TokenCurrent(h.rest[1])
\* P holds of the header, the outcome and the table of every guarded route,
\* for every header and route parameter.
EveryAdminRoute(P(_, _, _)) ==
  \A h \in Headers :
    /\ P(h, AdminVerifyOutcome(h), <<>>)
    /\ P(h, AdminStatsOutcome(h), <<>>)
    /\ \A rows \in AllRows(guestbookEntry) :
         P(h, AdminGetGuestbookOutcome(h, rows), guestbookEntry)
    /\ \A rows \in AllRows(newsletterSub) :
         P(h, AdminGetNewsletterOutcome(h, rows), newsletterSub)
    /\ \A rows \in AllRows(contactMessage) :
         P(h, AdminGetContactsOutcome(h, rows), contactMessage)
    /\ \A id \in IdParams :
         /\ P(h, AdminDeleteGuestbookOutcome(h, id), guestbookEntry)
         /\ P(h, AdminDeleteNewsletterOutcome(h, id), newsletterSub)
         /\ P(h, AdminDeleteContactOutcome(h, id), contactMessage)
         /\ P(h, AdminPatchGuestbookFindOutcome(h, id), guestbookEntry)
         /\ P(h, AdminPatchContactFindOutcome(h, id), contactMessage)

\* C1, as stated: every /api/admin route other than POST /login runs its
\* handler only when the request carries "Authorization: Bearer <token>" with
\* a token that verifies against JWT_SECRET and has not expired; any other
\* request is answered 401 and leaves every row unchanged.
C1_RejectedWith401 ==
  LET P(h, out, table) ==
        /\ out.next => CarriesValidToken(h)
        /\ ~CarriesValidToken(h) => out.resp.status = 401 /\ out.table = table
  IN EveryAdminRoute(P)

\* C1, amended: every /api/admin route other than POST /login runs its
\* handler only when the request carries a bearer token that login issued
\* and that has not expired; any other request leaves every row unchanged
\* and is answered 401 when JWT_SECRET is configured, 500 when it is not.
C1_GuardedRoutes ==
  LET P(h, out, table) ==
        /\ out.next => CarriesValidToken(h)
        /\ ~CarriesValidToken(h) =>
             /\ out.resp.status = IF env.JWT_SECRET = "" THEN 500 ELSE 401
             /\ out.table = table
  IN EveryAdminRoute(P)

\* C1 witness: an entry exists, a token has expired, and the delete route
\* refuses the expired token, the same token with its expiry rewritten, and
\* a request without a header.
C1_ExpiredTokenRefused ==
  /\ 1 \in DOMAIN guestbookEntry
  /\ \E t \in issued :
       /\ now >= t.exp
       /\ AdminDeleteGuestbookOutcome(Header("Bearer", <<t>>), <<"1">>).resp
            = Reply(401, "Session expired. Please log in again.", NoData)
       /\ AdminDeleteGuestbookOutcome(Header("Bearer", <<Tampered(t)>>), <<"1">>).resp
            = Reply(401, "Invalid token. Please log in again.", NoData)
       /\ AdminDeleteGuestbookOutcome(NoHeader, <<"1">>).resp
            = Reply(401, "Authentication required.", NoData)

\* Of a login request: the server is configured, the user name is the
\* configured one up to case, the password is the one the hash was made of.
Configured == env.ADMIN_PASSWORD_HASH # NoHash /\ env.JWT_SECRET # ""
EqualIgnoringCase(a, b) ==
  /\ Len(a) = Len(b)
  /\ \A i \in 1..Len(a) : a[i] = b[i] \/ LowerChar(a[i]) = b[i] \/ a[i] = LowerChar(b[i])
NameRight(u) == u.t = "string" /\ EqualIgnoringCase(u.s, env.ADMIN_USERNAME)
PasswordRight(p) == p.t = "string" /\ env.ADMIN_PASSWORD_HASH = BcryptHash(p.s)
Present(v) == v.t # "undefined" /\ ~(v.t = "string" /\ v.s = <<>>)

\* C2: POST /admin/login issues a token only when ADMIN_PASSWORD_HASH and
\* JWT_SECRET are configured, the user name is the configured one up to case
\* and the password matches the hash; the token carries role "admin" and the
\* configured expiry; in every other case the response carries no token.
C2_TokenOnlyForAdmin ==
  /\ \A ip \in IPs, u \in Usernames, p \in Passwords :
       LET r == LoginOutcome(ip, u, p).resp
       IN IF r.status = 200
            THEN /\ Configured /\ NameRight(u) /\ PasswordRight(p)
                 /\ r.data.token.role = "admin"
                 /\ r.data.token.exp = now + JWT_EXPIRES_IN
                 /\ r.data.expiresIn = JWT_EXPIRES_IN
            ELSE r.data = NoData
  /\ \A t \in issued : Configured /\ t.role = "admin" /\ t.exp = t.iat + JWT_EXPIRES_IN

\* C2 witness: a server whose ADMIN_USERNAME is "Admin" has issued a token
\* (to the user name "admin" or "Admin"), and refuses the wrong password.
C2_TokenIssued ==
  /\ env.ADMIN_USERNAME = UserAdminCap
  /\ issued # {}
  /\ LoginHandler(JStr(UserAdmin), JStr(PwGood)).status = 200
  /\ LoginHandler(JStr(UserAdmin), JStr(PwBad)).status = 401

\* C3: two login requests that both carry a non-empty user name and
\* password and both fail, one on the user name and one on the password, get
\* the same status and body: 401 "Invalid credentials.".
C3_Undifferentiated ==
  Configured =>
    \A u1 \in Usernames, p1 \in Passwords, u2 \in Usernames, p2 \in Passwords :
      ( /\ Present(u1) /\ Present(p1) /\ Present(u2) /\ Present(p2)
        /\ ~NameRight(u1)
        /\ NameRight(u2) /\ ~PasswordRight(p2) )
      => /\ LoginHandler(u1, p1) = LoginHandler(u2, p2)
         /\ LoginHandler(u2, p2) = Reply(401, "Invalid credentials.", NoData)

\* The tokens generateToken() has returned so far.
TokensSoFar == 1..(nextToken - 1)
\* Request r is POST /newsletter after findUnique, in the branch `b`.
Subscribing(r) == inflight[r].pc = "subscribe"
Resubscribing(r) ==
  /\ Subscribing(r)
  /\ ~IsNull(inflight[r].existing)
  /\ ~IsNull(inflight[r].existing[1].unsubAt)

\* C4: when POST /newsletter is called with the e-mail of a row whose
\* unsubAt is set, its write leaves the row pending (confirmed false,
\* confirmedAt and unsubAt null) with a confirmToken and an unsubToken that
\* no earlier call of generateToken() returned.
C4_ResubscribeResets ==
  [][\A r \in Reqs :
       (Resubscribing(r) /\ PostNewsletterWrite(r)) =>
         LET row == newsletterSub'[inflight[r].existing[1].id]
         IN /\ ~row.confirmed
            /\ IsNull(row.confirmedAt)
            /\ IsNull(row.unsubAt)
            /\ ~IsNull(row.confirmToken)
            /\ row.confirmToken[1] \notin TokensSoFar
            /\ row.unsubToken \notin TokensSoFar
            /\ row.confirmToken[1] # row.unsubToken]_vars

\* C4 witness: a row is pending under the third and fourth token generated,
\* which only a resubscribe gives it.
C4_Resubscribed ==
  \E i \in DOMAIN newsletterSub :
    /\ newsletterSub[i].unsubToken = 4
    /\ newsletterSub[i].confirmToken = Some(3)
    /\ ~newsletterSub[i].confirmed
    /\ IsNull(newsletterSub[i].unsubAt)
    /\ IsNull(newsletterSub[i].confirmedAt)

\* C5: a subscriber row is confirmed only if, since it was created or last
\* resubscribed, a confirm request presented its then-current confirmToken.
C5_DoubleOptIn ==
  \A i \in DOMAIN newsletterSub : newsletterSub[i].confirmed => i \in clicked

\* The body's e-mail is that of a confirmed row that is not unsubscribed.
ActiveSubscriber(b) ==
  \E i \in DOMAIN newsletterSub :
    /\ ToLowerCase(Trim(b.email.s)) = newsletterSub[i].email
    /\ newsletterSub[i].confirmed
    /\ IsNull(newsletterSub[i].unsubAt)

\* C6: POST /newsletter for the e-mail of a confirmed row that is not
\* unsubscribed, once past the rate limiters, answers "already_subscribed"
\* and writes nothing: every row of every table, the token sequence and the
\* requests in flight are as before.
C6_AlreadySubscribedNoOp ==
  [][\A r \in Reqs, b \in NewsBodies :
       ( /\ b.email.t = "string"
         /\ ActiveSubscriber(b)
         /\ RateLimit2(hits, "general", "newsletter", "ip1").blocked = "none"
         /\ PostNewsletterFind(r, "ip1", b) )
       => /\ PostNewsletterFindOutcome("ip1", b).resp
               = Some(Reply(200, "already_subscribed", NoData))
          /\ UNCHANGED <<tables, nextToken, inflight, clicked>>]_vars

\* C6 witness: a confirmed subscriber has subscribed twice more: three
\* subscribe requests were counted, only the two tokens of the creation were
\* ever generated, and no request is in flight.
C6_RepeatedSubscribe ==
  /\ ActiveSubscriber(GoodNewsletterBody)
  /\ hits["newsletter"]["ip1"] = 3
  /\ nextToken = 3
  /\ \A r \in Reqs : inflight[r] = Idle

\* C7: of two POST /newsletter requests with the same e-mail, unseen when
\* each looked it up, neither ends in an error response and one row for the
\* e-mail exists afterwards.
C7_NoErrorNoDuplicate ==
  /\ \A r \in Reqs :
       (Subscribing(r) /\ IsNull(inflight[r].existing)) =>
         PostNewsletterWriteOutcome(inflight[r]).resp.status < 400
  /\ \A i, j \in DOMAIN newsletterSub :
       newsletterSub[i].email = newsletterSub[j].email => i = j

\* C8: each limiter lets a client's request through while fewer than its cap
\* were counted for the client in the window, and refuses it from then on:
\* 5 for login, 3 for guestbook POST, 5 for newsletter POST, 3 for contact
\* POST, 100 for the /api routes.
C8_CapPerWindow ==
  \A ip \in IPs :
    /\ LoginOutcome(ip, JStr(UserAdmin), JStr(PwBad)).resp.status = 429
         <=> hits["login"][ip] >= 5
    /\ \A entries \in VisibleEntries :
         GetGuestbookOutcome(ip, entries).resp.status = 429 <=> hits["general"][ip] >= 100
    /\ \A b \in {GoodGuestbookBody, BadGuestbookBody} :
         PostGuestbookOutcome(ip, b).resp.status = 429
           <=> (hits["general"][ip] >= 100 \/ hits["guestbook"][ip] >= 3)
    /\ \A b \in {GoodNewsletterBody, BadNewsletterBody} :
         PostNewsletterFindOutcome(ip, b).resp = Some(TooMany("newsletter"))
           <=> (hits["general"][ip] < 100 /\ hits["newsletter"][ip] >= 5)
    /\ \A b \in {GoodContactBody, BadContactBody} :
         PostContactOutcome(ip, b).resp.status = 429
           <=> (hits["general"][ip] >= 100 \/ hits["contact"][ip] >= 3)

\* C8 witness: one client was refused by the general, the guestbook and the
\* login limiter, another by the newsletter and the contact limiter.
C8_EveryLimiterOver ==
  /\ hits["general"]["ip1"] = 101
  /\ hits["guestbook"]["ip1"] = 4
  /\ hits["login"]["ip1"] = 6
  /\ hits["newsletter"]["ip2"] = 6
  /\ hits["contact"]["ip2"] = 4

Classes == {"login", "guestbook", "newsletter", "contact"}
\* C9: a request counted by the limiter of one endpoint class leaves the
\* counters of the other classes unchanged, and a request of one client
\* leaves every counter of every other client unchanged.
C9_IndependentWindows ==
  [][\A l \in Limiters, ip \in IPs :
       hits'[l][ip] > hits[l][ip] =>
         /\ \A l2 \in Limiters, ip2 \in IPs \ {ip} : hits'[l2][ip2] = hits[l2][ip2]
         /\ l \in Classes => \A l2 \in Classes \ {l} : hits'[l2][ip] = hits[l2][ip]]_vars

\* C9 witness: each client has requests counted in some classes and none in
\* the others.
C9_CountedApart ==
  /\ hits["guestbook"]["ip1"] = 2 /\ hits["login"]["ip1"] = 1
  /\ hits["newsletter"]["ip1"] = 0 /\ hits["contact"]["ip1"] = 0
  /\ hits["newsletter"]["ip2"] = 1 /\ hits["contact"]["ip2"] = 2
  /\ hits["guestbook"]["ip2"] = 0 /\ hits["login"]["ip2"] = 0
  /\ hits["general"]["ip1"] = 2 /\ hits["general"]["ip2"] = 3

\* An existing guestbook entry was deleted or had its visible flag changed,
\* or an existing contact message was deleted or had its read flag changed.
ModerationStep ==
  \/ \E i \in DOMAIN guestbookEntry :
       i \notin DOMAIN guestbookEntry' \/ guestbookEntry'[i].visible # guestbookEntry[i].visible
  \/ \E i \in DOMAIN contactMessage :
       i \notin DOMAIN contactMessage' \/ contactMessage'[i].read # contactMessage[i].read
\* The step is that of an admin PATCH or DELETE route whose request passed
\* the token check.
AdminStep ==
  \/ \E h \in Headers, id \in IdParams :
       CarriesValidToken(h) /\ (AdminDeleteGuestbook(h, id) \/ AdminDeleteContact(h, id))
  \/ \E r \in Reqs :
       /\ inflight[r].pc \in {"patchGuestbook", "patchContact"}
       /\ inflight[r].admin \in issued
       /\ AdminPatchGuestbookUpdate(r) \/ AdminPatchContactUpdate(r)

\* C10: no step deletes an existing guestbook entry or contact message, or
\* changes an entry's visible flag or a message's read flag, unless it is
\* the step of an /admin route whose request passed the token check; the
\* public routes only add entries and messages.
C10_OnlyAdminModerates ==
  [][ModerationStep => AdminStep]_vars

\* C10 witness: after public requests, the entry a visitor wrote is hidden
\* and the message a visitor sent is deleted, and both visitors went on
\* sending requests.
C10_Moderated ==
  /\ \E i \in DOMAIN guestbookEntry : ~guestbookEntry[i].visible
  /\ autoinc.contact = 2 /\ contactMessage = <<>>
  /\ hits["general"]["ip1"] >= 2
  /\ hits["general"]["ip2"] >= 2

\* The ids a response lists, and whether it lists no row twice and no row
\* before a newer one.
ListedIds(list) == {list[k].id : k \in 1..Len(list)}
NoRepeats(list) == \A k, m \in 1..Len(list) : list[k].id = list[m].id => k = m
NewestFirst(list) ==
  \A k \in 1..(Len(list) - 1) : list[k].createdAt >= list[k + 1].createdAt
ValidHeaders == {h \in Headers : CarriesValidToken(h)}

\* C11: in every state, public GET /guestbook returns exactly the entries
\* whose visible flag is true, each once, with their name and message,
\* newest first; a hidden entry is not in the public list but is in storage
\* and in the list of GET /admin/guestbook, which shows every stored entry
\* with its flag.
C11_SoftHide ==
  /\ \A entries \in VisibleEntries :
       LET r == GetGuestbookOutcome("ip2", entries).resp
       IN /\ r.status = 200
          /\ ListedIds(r.data) = {i \in DOMAIN guestbookEntry : guestbookEntry[i].visible}
          /\ NoRepeats(r.data)
          /\ NewestFirst(r.data)
          /\ \A k \in 1..Len(r.data) :
               /\ r.data[k].name = guestbookEntry[r.data[k].id].name
               /\ r.data[k].message = guestbookEntry[r.data[k].id].message
               /\ r.data[k].createdAt = guestbookEntry[r.data[k].id].createdAt
  /\ \A h \in ValidHeaders, rows \in AllRows(guestbookEntry) :
       LET r == AdminGetGuestbookOutcome(h, rows).resp
       IN /\ r.status = 200
          /\ ListedIds(r.data) = DOMAIN guestbookEntry
          /\ NoRepeats(r.data)
          /\ NewestFirst(r.data)
          /\ \A k \in 1..Len(r.data) :
               r.data[k].visible = guestbookEntry[r.data[k].id].visible

\* C11 witness: the admin, logged in, has hidden an entry while two entries
\* of different dates are visible, and a visitor has read the guestbook.
C11_HiddenAmongVisible ==
  /\ ValidHeaders # {}
  /\ hits["general"]["ip2"] >= 1
  /\ \E i, j, k \in DOMAIN guestbookEntry :
       /\ ~guestbookEntry[i].visible
       /\ guestbookEntry[j].visible /\ guestbookEntry[k].visible
       /\ guestbookEntry[j].createdAt > guestbookEntry[k].createdAt
       /\ guestbookEntry[i].createdAt > guestbookEntry[j].createdAt

\* C12: PATCH /admin/guestbook/:id, sent with a valid token for a stored
\* entry, negates the entry's visible flag, reports the new flag and leaves
\* every other entry alone; a second call made after the first has ended
\* negates it again, so that the table is as it was before the two calls.
C12_ToggleTwiceRestores ==
  \A h \in ValidHeaders, n \in DOMAIN guestbookEntry :
    LET one == AdminPatchGuestbookCall(h, Decimal(n), guestbookEntry)
        two == AdminPatchGuestbookCall(h, Decimal(n), one.table)
    IN /\ one.resp.status = 200
       /\ one.resp.data.visible = ~guestbookEntry[n].visible
       /\ one.table = [guestbookEntry EXCEPT ![n].visible = ~guestbookEntry[n].visible]
       /\ two.resp.status = 200
       /\ two.resp.data.visible = guestbookEntry[n].visible
       /\ two.table = guestbookEntry

\* C12 witness: the admin, logged in, has the PATCH route hide an entry and
\* show a hidden entry: one entry is hidden, another visible, and no PATCH
\* request is in flight.
C12_HiddenAndVisible ==
  /\ ValidHeaders # {}
  /\ inflight["r1"] = Idle
  /\ \E i, j \in DOMAIN guestbookEntry :
       /\ ~guestbookEntry[i].visible
       /\ guestbookEntry[j].visible
       /\ AdminPatchGuestbookCall(Header("Bearer", <<CHOOSE t \in issued : TokenCurrent(t)>>),
                                  Decimal(i), guestbookEntry).table[i].visible

\* A response body that is one record, or a list of records, has an ipHash.
RecordExposes(resp) == resp.data # NoData /\ "ipHash" \in DOMAIN resp.data
ListExposes(resp) ==
  resp.status = 200 /\ \E k \in 1..Len(resp.data) : "ipHash" \in DOMAIN resp.data[k]
\* Some response of a public endpoint has an ipHash.
PublicExposes ==
  \/ \E ip \in IPs, entries \in VisibleEntries : ListExposes(GetGuestbookOutcome(ip, entries).resp)
  \/ \E ip \in IPs, b \in {GoodGuestbookBody, BadGuestbookBody, SeedBody} :
       RecordExposes(PostGuestbookOutcome(ip, b).resp)
  \/ \E ip \in IPs, b \in {GoodContactBody, BadContactBody} :
       RecordExposes(PostContactOutcome(ip, b).resp)
  \/ \E ip \in IPs, b \in {GoodNewsletterBody, BadNewsletterBody} :
       LET r == PostNewsletterFindOutcome(ip, b).resp
       IN ~IsNull(r) /\ RecordExposes(r[1])
\* Some response to header h of an admin endpoint other than GET
\* /admin/guestbook has an ipHash.
AdminExposes(h) ==
  \/ RecordExposes(LoginOutcome("ip1", JStr(UserAdmin), JStr(PwGood)).resp)
  \/ RecordExposes(AdminVerifyOutcome(h).resp)
  \/ RecordExposes(AdminStatsOutcome(h).resp)
  \/ \E rows \in AllRows(newsletterSub) : ListExposes(AdminGetNewsletterOutcome(h, rows).resp)
  \/ \E rows \in AllRows(contactMessage) : ListExposes(AdminGetContactsOutcome(h, rows).resp)
  \/ \E id \in IdParams \cup EntryIds :
       \/ RecordExposes(AdminDeleteGuestbookOutcome(h, id).resp)
       \/ RecordExposes(AdminDeleteNewsletterOutcome(h, id).resp)
       \/ RecordExposes(AdminDeleteContactOutcome(h, id).resp)
       \/ RecordExposes(AdminPatchGuestbookCall(h, id, guestbookEntry).resp)
\* Some response of GET /admin/guestbook to header h has an ipHash.
AdminListExposes(h) ==
  \E rows \in AllRows(guestbookEntry) : ListExposes(AdminGetGuestbookOutcome(h, rows).resp)

\* C13, as stated: no response of any endpoint, public or admin, contains an
\* entry's ipHash.
C13_NeverExposed ==
  /\ ~PublicExposes
  /\ \A h \in Headers : ~AdminExposes(h) /\ ~AdminListExposes(h)

\* C13, amended: no response of a public endpoint contains an entry's
\* ipHash, and no response of an admin endpoint other than GET
\* /admin/guestbook; GET /admin/guestbook lists each entry's ipHash, and
\* only to a request that carries a valid token.
C13_ExposedToAdminOnly ==
  /\ ~PublicExposes
  /\ \A h \in Headers :
       /\ ~AdminExposes(h)
       /\ AdminListExposes(h) => CarriesValidToken(h)
       /\ (CarriesValidToken(h) /\ guestbookEntry # <<>>) => AdminListExposes(h)

\* C13 witness: two entries of a visitor are stored, one of them hidden, and
\* the admin list, asked for with a valid token, shows with both the digest
\* of the visitor's address, while the public list shows one entry.
C13_DigestListed ==
  /\ \E i \in DOMAIN guestbookEntry : ~guestbookEntry[i].visible
  /\ \E h \in ValidHeaders, rows \in AllRows(guestbookEntry) :
       LET list == AdminGetGuestbookOutcome(h, rows).resp.data
       IN Len(list) = 2 /\ \A k \in 1..Len(list) : list[k].ipHash = Sha256("ip2")
  /\ \E entries \in VisibleEntries : Len(GetGuestbookOutcome("ip2", entries).resp.data) = 1

\* What the claim calls a body that fails validation, field by field: the
\* field is missing, is empty once trimmed, is longer than its limit, or, in
\* the guestbook, has an angle bracket; an e-mail is missing or is not
\* an address.
Blank(str) == \A i \in 1..Len(str) : str[i] = " "
TextFault(v, maxLen, noAngle) ==
  \/ v.t = "undefined"
  \/ /\ v.t = "string"
     /\ \/ Blank(v.s)
        \/ Len(Trim(v.s)) > maxLen
        \/ noAngle /\ \E i \in 1..Len(v.s) : v.s[i] = "<" \/ v.s[i] = ">"
NotAnAddress ==
  {<<>>, <<"a", "@", "b">>, <<"a", "@", "@", "b", ".", "i", "o">>, <<"a", "b", ".", "i", "o">>,
   <<".", "a", "@", "b", ".", "i", "o">>}
EmailFault(v) == v.t = "undefined" \/ (v.t = "string" /\ Trim(v.s) \in NotAnAddress)
GuestbookFaults(b) ==
  {f \in {"name"} : TextFault(b.name, 80, TRUE)}
  \cup {f \in {"message"} : TextFault(b.message, 200, TRUE)}
ContactFaults(b) ==
  {f \in {"name"} : TextFault(b.name, 100, FALSE)}
  \cup {f \in {"email"} : EmailFault(b.email)}
  \cup {f \in {"subject"} : TextFault(b.subject, 200, FALSE)}
  \cup {f \in {"message"} : TextFault(b.message, 5000, FALSE)}
NewsletterFaults(b) == {f \in {"email"} : EmailFault(b.email)}
\* The response is 400 with a map that gives a message for each faulty field.
FieldErrors(resp, faults) ==
  /\ resp.status = 400
  /\ faults \subseteq DOMAIN resp.data
  /\ \A f \in DOMAIN resp.data : resp.data[f] # ""

\* C14: a POST to /guestbook, /newsletter or /contact that passes the rate
\* limiters and whose body has a faulty field (missing, empty once trimmed,
\* over the length limit, an angle bracket in a guestbook field, an e-mail
\* that is not an address) is answered 400 with a map from field name to
\* message that names every faulty field, and the handler ends there: it
\* creates no row and starts no write.
C14_InvalidBodyRejected ==
  \A ip \in IPs :
    /\ \A b \in GuestbookBodies \cup {GoodGuestbookBody, BadGuestbookBody} :
         LET out == PostGuestbookOutcome(ip, b)
         IN (GuestbookFaults(b) # {} /\ out.resp.status # 429) =>
              FieldErrors(out.resp, GuestbookFaults(b)) /\ IsNull(out.created)
    /\ \A b \in ContactBodies \cup {GoodContactBody, BadContactBody} :
         LET out == PostContactOutcome(ip, b)
         IN (ContactFaults(b) # {} /\ out.resp.status # 429) =>
              FieldErrors(out.resp, ContactFaults(b)) /\ IsNull(out.created)
    /\ \A b \in NewsletterBodies \cup {GoodNewsletterBody, BadNewsletterBody} :
         LET out == PostNewsletterFindOutcome(ip, b)
         IN (NewsletterFaults(b) # {}
             /\ RateLimit2(hits, "general", "newsletter", ip).blocked = "none") =>
              ~IsNull(out.resp) /\ FieldErrors(out.resp[1], NewsletterFaults(b))

\* C14 witness: each form was sent once with a faulty body and nothing came
\* of it, while the guestbook and contact forms sent with a good body each
\* made a row.
C14_FaultyBodiesSent ==
  /\ hits["guestbook"]["ip2"] = 2 /\ autoinc.guestbook = 2
  /\ hits["contact"]["ip1"] = 2 /\ autoinc.contact = 2
  /\ hits["newsletter"]["ip1"] = 1 /\ newsletterSub = <<>> /\ nextToken = 1
  /\ inflight["r1"] = Idle

\* The route parameter is a number: one or more decimal digits.
IsNumber(idParam) == idParam # <<>> /\ \A i \in 1..Len(idParam) : IsDigit(idParam[i])
\* What the claim asks of a PATCH or DELETE with this parameter on a table.
NotFoundOrInvalid(idParam, out, table) ==
  /\ ~IsNumber(idParam) => out.resp.status = 400 /\ out.table = table
  /\ (IsNumber(idParam) /\ DecimalValue(idParam) \notin DOMAIN table) =>
       out.resp.status = 404 /\ out.table = table

\* C15: an admin PATCH or DELETE on /admin/guestbook/:id,
\* /admin/newsletter/:id or /admin/contacts/:id, sent with a valid token,
\* is answered 404 when the id matches no row and 400 when the id is not a
\* number, and in both cases changes no row.
C15_NotFoundOrInvalid ==
  \A h \in ValidHeaders, id \in IdParams :
    /\ NotFoundOrInvalid(id, AdminDeleteGuestbookOutcome(h, id), guestbookEntry)
    /\ NotFoundOrInvalid(id, AdminDeleteNewsletterOutcome(h, id), newsletterSub)
    /\ NotFoundOrInvalid(id, AdminDeleteContactOutcome(h, id), contactMessage)
    /\ NotFoundOrInvalid(id, AdminPatchGuestbookCall(h, id, guestbookEntry), guestbookEntry)
    /\ NotFoundOrInvalid(id, AdminPatchContactFindOutcome(h, id), contactMessage)

\* The requests the error claims range over.
LoginRequests ==
  {<<o, raw, u, p>> : o \in Origins, raw \in RawBodies, u \in {JStr(UserAdmin)},
                      p \in Passwords}
GuestbookRequests ==
  {<<o, raw, b>> : o \in Origins, raw \in RawBodies,
                   b \in {GoodGuestbookBody, BadGuestbookBody}}
\* The response to a request during which an error was raised does not
\* carry the error's message.
Generic(out) == ~IsNull(out.err) => out.resp.body # out.err[1].message

\* C16, as stated: whatever NODE_ENV is, no response carries the message
\* text of the error that was raised while the request was handled.
C16_GenericMessages ==
  \A ip \in IPs :
    /\ \A q \in LoginRequests : Generic(AppLoginOutcome(ip, q[1], q[2], q[3], q[4]))
    /\ \A q \in GuestbookRequests : Generic(AppPostGuestbookOutcome(ip, q[1], q[2], q[3]))

\* What the amended claim asks of one response: an error caught by the
\* route's own catch block is answered with a message that is not the
\* error's; an error that reached the global handler is answered with
\* "Internal server error" when NODE_ENV is "production" and with the
\* error's message otherwise.
GenericInProduction(out) ==
  ~IsNull(out.err) =>
    IF ~out.global THEN out.resp.status = 500 /\ out.resp.body # out.err[1].message
    ELSE IF env.NODE_ENV = "production" THEN out.resp.body = "Internal server error"
    ELSE out.resp.body = out.err[1].message

\* C16, amended: a failure caught in a route handler is surfaced as a fixed
\* generic message whatever NODE_ENV is; an error that reaches the global
\* error handler (an origin CORS refuses, a body express.json cannot read)
\* is surfaced as "Internal server error" when NODE_ENV is "production", and
\* with the message text of the error for every other value of NODE_ENV.
C16_GenericInProduction ==
  \A ip \in IPs :
    /\ \A q \in LoginRequests :
         GenericInProduction(AppLoginOutcome(ip, q[1], q[2], q[3], q[4]))
    /\ \A q \in GuestbookRequests :
         GenericInProduction(AppPostGuestbookOutcome(ip, q[1], q[2], q[3]))

\* C16 witness: on a server whose NODE_ENV is not set, where logins were
\* attempted and an entry was written, a login from a refused origin is
\* answered with the CORS error's text, and a login with a number for the
\* password with the text of the catch block.
C16_MessageInDevelopment ==
  /\ env.NODE_ENV = ""
  /\ hits["login"]["ip1"] >= 2 /\ guestbookEntry # <<>>
  /\ AppLoginOutcome("ip1", "https://evil.example", "json", JStr(UserAdmin), JStr(PwGood)).resp
       = Reply(500, "CORS blocked: https://evil.example is not allowed", NoData)
  /\ AppLoginOutcome("ip1", "", "json", JStr(UserAdmin), JNum).resp
       = Reply(500, "Login failed. Please try again.", NoData)

\* The guestbook table and its sequence, as a run of the seed script finds
\* them, and the number of rows that carry an entry's name and message.
SeedDb == [table |-> guestbookEntry, next |-> autoinc.guestbook]
RowsOf(table, entry) ==
  Cardinality({i \in DOMAIN table :
                 table[i].name = entry.name /\ table[i].message = entry.message})

\* C17, as stated: whenever the seed script is not running, running it
\* twice or three times in sequence leaves the guestbook table as after the
\* first run, and after the first run every seed entry (name, message) has
\* exactly one row.
C17_ExactlyOneRow ==
  seed = Idle =>
    LET once == SeedMain(SeedDb)
    IN /\ SeedMain(once) = once
       /\ SeedMain(SeedMain(once)) = once
       /\ \A k \in DOMAIN SEED_ENTRIES : RowsOf(once.table, SEED_ENTRIES[k]) = 1

\* C17, amended: whenever the seed script is not running, running it twice
\* or three times in sequence leaves the guestbook table as after the first
\* run; the first run adds exactly one row for each seed entry (name,
\* message) the table did not hold and none for an entry it held, so every
\* seed entry has at least one row, and exactly one unless visitors had
\* written it more than once before.
C17_Idempotent ==
  seed = Idle =>
    LET once == SeedMain(SeedDb)
    IN /\ SeedMain(once) = once
       /\ SeedMain(SeedMain(once)) = once
       /\ \A k \in DOMAIN SEED_ENTRIES :
            LET before == RowsOf(guestbookEntry, SEED_ENTRIES[k])
            IN RowsOf(once.table, SEED_ENTRIES[k]) = IF before = 0 THEN 1 ELSE before

\* C17 witness: the script has run to its end on a table in which a visitor
\* had written the first seed entry: that entry was skipped, the others
\* carry the script's marker, and another run changes nothing.
C17_SeededOnce ==
  /\ seed = Idle
  /\ \A k \in DOMAIN SEED_ENTRIES : RowsOf(guestbookEntry, SEED_ENTRIES[k]) = 1
  /\ \E i \in DOMAIN guestbookEntry : guestbookEntry[i].ipHash = Plain("seed")
  /\ \E i \in DOMAIN guestbookEntry :
       /\ guestbookEntry[i].ipHash # Plain("seed")
       /\ \E k \in DOMAIN SEED_ENTRIES : guestbookEntry[i].message = SEED_ENTRIES[k].message
  /\ SeedMain(SeedDb) = SeedDb

\* C18, as stated: when the last step of the panel handled an answer with
\* status 401 to one of the dashboard's calls (the four of fetchAll on the
\* initial load or a refresh, a toggle, a delete) or to the verify call, the
\* token is gone from the panel's state and from sessionStorage, and so the
\* login screen is shown.
C18_LoggedOutOn401 ==
  panel.refused => IsNull(panel.token) /\ IsNull(panel.storage)

\* The table behind a tab.
TableOf(type) ==
  CASE type = "guestbook" -> guestbookEntry
    [] type = "newsletter" -> newsletterSub
    [] type = "contact" -> contactMessage
\* A step in which the panel sends a DELETE request for item q, or in which
\* the row of q leaves its table.
Deletes(q) ==
  \/ \E r \in panel'.responses \ panel.responses : r.item = q
  \/ q.id \in DOMAIN TableOf(q.type) /\ q.id \notin DOMAIN TableOf(q.type)'
\* A step in which the Cancel button of the open dialog is pressed.
Cancels ==
  ~IsNull(panel.confirmDelete) /\ IsNull(panel'.confirmDelete) /\ panel'.pressed = "cancel"

\* C19: in every step in which the panel sends a DELETE request for an item
\* (or a row is deleted), the confirmation dialog is open for that very item
\* and the step is the press of its confirm button; a step that cancels the
\* dialog sends no request and leaves every table as it is.
C19_DeleteNeedsConfirm ==
  [][/\ \A q \in Items :
          Deletes(q) => panel.confirmDelete = Some(q) /\ panel'.pressed = "confirm"
     /\ Cancels => panel'.responses = panel.responses /\ UNCHANGED tables]_vars

\* C19 witness: the dialog was opened for the subscriber, confirm was
\* pressed, and the DELETE request was answered 200: the only subscriber is
\* gone, while the guestbook entry, whose dialog was not confirmed, is there.
C19_ConfirmedDelete ==
  /\ panel.pressed = "confirm"
  /\ panel.confirmDelete = Some(Item("newsletter", 1))
  /\ [item |-> Item("newsletter", 1), status |-> 200] \in panel.responses
  /\ newsletterSub = <<>> /\ autoinc.newsletter = 2
  /\ 1 \in DOMAIN guestbookEntry

\* A confirm request with token t that client ip sends now finds no row, so
\* it updates none, and unless the general limiter refuses it, it is
\* answered 404.
Refused404(ip, t) ==
  LET out == ConfirmFindOutcome(ip, t)
  IN /\ IsNull(out.sub)
     /\ RateLimit(hits, "general", ip).blocked = "none"
          => out.resp = Some(Reply(404, "Invalid or expired confirmation link.", NoData))
Spent(t) == \A ip \in IPs : Refused404(ip, t)
\* Request r ends as a successful confirmation in this step.
Confirms(r) ==
  ConfirmUpdate(r) /\ ConfirmUpdateOutcome(inflight[r]).resp.status = 200

\* C20: when GET /newsletter/confirm/:token succeeds, the row's confirmToken
\* is null afterwards and a confirm request with the same token that arrives
\* from then on finds no row: past the rate limiter it is answered 404, and
\* it reaches no update.  A token value with which a request finds no row
\* never finds one again.
C20_SingleUse ==
  [][/\ \A r \in Reqs :
          IF inflight[r].pc = "confirm" /\ Confirms(r)
            THEN \A f \in {inflight[r]} :
                   IsNull(newsletterSub'[f.id].confirmToken) /\ Spent(f.token)'
          ELSE TRUE
     /\ \A t \in TokensSoFar : Spent(t) => Spent(t)']_vars

\* C20 witness: the first subscriber followed the link with token 1 and was
\* confirmed, the token is cleared, a further confirm request was sent and
\* has ended, and token 1 is answered 404.
C20_TokenSpent ==
  /\ 1 \in DOMAIN newsletterSub
  /\ newsletterSub[1].confirmed /\ IsNull(newsletterSub[1].confirmToken)
  /\ IsNull(newsletterSub[1].unsubAt)
  /\ 1 \in clicked
  /\ hits["newsletter"]["ip1"] = 1 /\ hits["general"]["ip1"] >= 3
  /\ \A r \in Reqs : inflight[r] = Idle
  /\ ConfirmFindOutcome("ip1", 1).resp
       = Some(Reply(404, "Invalid or expired confirmation link.", NoData))

\* The rows an unsubscribe request with token t addresses: those that carry
\* t as unsubToken and are not unsubscribed.
Subscribed(t) ==
  {i \in DOMAIN newsletterSub :
     newsletterSub[i].unsubToken = t /\ IsNull(newsletterSub[i].unsubAt)}
\* Row i differs between the two states of a step in unsubAt at most.
OnlyUnsubAt(i) ==
  /\ i \in DOMAIN newsletterSub'
  /\ \A c \in DOMAIN newsletterSub[i] \ {"unsubAt"} :
       newsletterSub'[i][c] = newsletterSub[i][c]

\* C21: DELETE /newsletter/:token, past the rate limiter.  With the
\* unsubToken of a row that is not unsubscribed, the request goes on to its
\* update of that row, and the update, when it answers 200, sets the row's
\* unsubAt and nothing else: the row is kept with confirmed, confirmedAt and
\* both tokens as they were, and no other row of any table changes.  With a
\* token that no such row carries it answers 404, goes on to no update and
\* changes no table.
C21_UnsubscribeSetsUnsubAt ==
  [][/\ \A r \in Reqs, t \in TokenParams :
          (UnsubscribeFind(r, "ip1", t) /\ RateLimit(hits, "general", "ip1").blocked = "none")
          => /\ UNCHANGED tables
             /\ IF Subscribed(t) = {}
                  THEN /\ UnsubscribeFindOutcome("ip1", t).resp
                            = Some(Reply(404, "Invalid unsubscribe link or already unsubscribed.",
                                         NoData))
                       /\ UNCHANGED inflight
                ELSE /\ inflight'[r].pc = "unsubscribe"
                     /\ inflight'[r].id \in Subscribed(t)
     /\ \A r \in Reqs :
          IF inflight[r].pc = "unsubscribe" /\ UnsubscribeUpdate(r)
            THEN \A f \in {inflight[r]} :
                   UnsubscribeUpdateOutcome(f).resp.status = 200
                   => /\ OnlyUnsubAt(f.id)
                      /\ ~IsNull(newsletterSub'[f.id].unsubAt)
                      /\ DOMAIN newsletterSub' = DOMAIN newsletterSub
                      /\ \A j \in DOMAIN newsletterSub \ {f.id} :
                           newsletterSub'[j] = newsletterSub[j]
                      /\ UNCHANGED <<guestbookEntry, contactMessage, autoinc>>
          ELSE TRUE]_vars

\* C21 witness: a confirmed subscriber has unsubscribed with token 2: the row
\* is there, still confirmed and with its tokens, unsubAt is set, and the
\* same link is now answered 404.
C21_Unsubscribed ==
  /\ 1 \in DOMAIN newsletterSub
  /\ newsletterSub[1].confirmed /\ ~IsNull(newsletterSub[1].confirmedAt)
  /\ newsletterSub[1].unsubToken = 2 /\ IsNull(newsletterSub[1].confirmToken)
  /\ ~IsNull(newsletterSub[1].unsubAt)
  /\ \A r \in Reqs : inflight[r] = Idle
  /\ UnsubscribeFindOutcome("ip1", 2).resp
       = Some(Reply(404, "Invalid unsubscribe link or already unsubscribed.", NoData))

\* A row of the subscriber table is pending: neither confirmed nor
\* unsubscribed.
Pending(row) == ~row.confirmed /\ IsNull(row.unsubAt)
\* Request r is POST /newsletter after findUnique returned a pending row.
Resending(r) ==
  /\ inflight[r].pc = "subscribe"
  /\ ~IsNull(inflight[r].existing)
  /\ Pending(inflight[r].existing[1])

\* C22: POST /newsletter, past the rate limiters, for the e-mail of a
\* pending row goes on to the branch that re-sends the confirmation; that
\* branch answers "confirmation_resent" and replaces the row's confirmToken
\* by a value no earlier call of generateToken() returned, leaving every
\* other column of the row (unsubToken, confirmed, confirmedAt, unsubAt) and
\* every other row as they were; from then on a confirm request with the
\* previous confirmToken finds no row and is answered 404.
C22_ResendReplacesToken ==
  [][/\ \A r \in Reqs, b \in NewsBodies :
          ( /\ PostNewsletterFind(r, "ip1", b)
            /\ RateLimit2(hits, "general", "newsletter", "ip1").blocked = "none"
            /\ b.email.t = "string"
            /\ \E i \in DOMAIN newsletterSub :
                 /\ newsletterSub[i].email = ToLowerCase(Trim(b.email.s))
                 /\ Pending(newsletterSub[i]) )
          => Resending(r)' /\ UNCHANGED tables
     /\ \A r \in Reqs :
          IF Resending(r) /\ PostNewsletterWrite(r)
            THEN \A f \in {inflight[r]}, old \in {newsletterSub}, used \in {TokensSoFar} :
                   LET i == f.existing[1].id
                   IN /\ PostNewsletterWriteOutcome(f).resp
                           = Reply(200, "confirmation_resent", NoData)
                      /\ DOMAIN newsletterSub' = DOMAIN old
                      /\ \A j \in DOMAIN old \ {i} : newsletterSub'[j] = old[j]
                      /\ \A c \in DOMAIN old[i] \ {"confirmToken"} :
                           newsletterSub'[i][c] = old[i][c]
                      /\ ~IsNull(newsletterSub'[i].confirmToken)
                      /\ newsletterSub'[i].confirmToken[1] \notin used
                      /\ newsletterSub'[i].confirmToken # old[i].confirmToken
                      /\ \A t \in used : old[i].confirmToken = Some(t) => Spent(t)'
          ELSE TRUE]_vars

\* C22 witness: the subscriber created with tokens 1 and 2 asked again
\* before confirming: the row is pending with confirmToken 3 and unsubToken
\* 2, and the link with token 1 is answered 404.
C22_Resent ==
  /\ 1 \in DOMAIN newsletterSub
  /\ Pending(newsletterSub[1])
  /\ newsletterSub[1].confirmToken = Some(3) /\ newsletterSub[1].unsubToken = 2
  /\ IsNull(newsletterSub[1].confirmedAt)
  /\ nextToken = 4 /\ hits["newsletter"]["ip1"] = 2
  /\ \A r \in Reqs : inflight[r] = Idle
  /\ ConfirmFindOutcome("ip1", 1).resp
       = Some(Reply(404, "Invalid or expired confirmation link.", NoData))

\* The limiter, if any, in front of the route of a public router.
RouteLimiter(q) ==
  IF q.method = "POST" /\ RouterHas(q) THEN {q.mount} ELSE {}
\* A request to a public router passes the general limiter first: it is
\* counted there; refused there, it is answered with that limiter's 429 and
\* reaches no other limiter; let through, it is counted by the limiter of
\* its route, if it has one.
GeneralFirst(ip, q) ==
  LET out == AppOutcome(ip, q)
      others == Limiters \ ({"general"} \cup RouteLimiter(q))
  IN /\ out.hits["general"][ip] = hits["general"][ip] + 1
     /\ \A l \in others : out.hits[l] = hits[l]
     /\ \A i \in IPs \ {ip} : \A l \in Limiters : out.hits[l][i] = hits[l][i]
     /\ IF hits["general"][ip] >= generalMax
          THEN /\ out.resp = TooMany("general")
               /\ \A l \in RouteLimiter(q) : out.hits[l] = hits[l]
        ELSE /\ out.resp # TooMany("general")
             /\ \A l \in RouteLimiter(q) : out.hits[l][ip] = hits[l][ip] + 1
\* The general limiter neither counts nor refuses the request.
NotCounted(ip, q) ==
  LET out == AppOutcome(ip, q)
  IN out.hits["general"] = hits["general"] /\ out.resp # TooMany("general")

\* C23, as stated: no request to a path under /api/health or /api/admin is
\* counted or refused by the general limiter, however many requests the
\* client has sent; every request to a path under /api/guestbook,
\* /api/newsletter or /api/contact passes the general limiter before the
\* limiter of its route and its handler.
C23_AdminNeverCounted ==
  \A ip \in IPs, q \in Requests :
    IF q.mount \in {"health", "admin"} THEN NotCounted(ip, q) ELSE GeneralFirst(ip, q)

\* C23, amended: a request that a route of /api/health or of /api/admin
\* answers is not counted or refused by the general limiter, however many
\* requests the client has sent; every other request under /api, those to
\* /api/guestbook, /api/newsletter and /api/contact and those to a path under
\* /api/health or /api/admin that has no route, passes the general limiter
\* before the limiter of its route and its handler.
C23_RoutesNotCounted ==
  \A ip \in IPs, q \in Requests :
    IF q.mount \in {"health", "admin"} /\ RouterHas(q) THEN NotCounted(ip, q)
    ELSE GeneralFirst(ip, q)

\* C23 witness: the client is past the cap of the general limiter, so its
\* public requests are refused, while its login is answered by the handler
\* and its health check with 200; a path under /api/admin without a route
\* is refused by the general limiter.
C23_OverTheCap ==
  /\ hits["general"]["ip1"] = generalMax + 1
  /\ hits["login"]["ip1"] >= 1
  /\ AppOutcome("ip1", [method |-> "GET", mount |-> "guestbook", path |-> "/"]).resp
       = TooMany("general")
  /\ AppOutcome("ip1", [method |-> "POST", mount |-> "admin", path |-> "/login"]).resp.status
       = 401
  /\ AppOutcome("ip1", [method |-> "GET", mount |-> "health", path |-> "/"]).resp.status = 200
  /\ AppOutcome("ip1", [method |-> "GET", mount |-> "admin", path |-> "/nope"]).resp
       = TooMany("general")

\* The two bodies carry addresses that differ at most in letter case and in
\* surrounding whitespace.
SameAddress(b1, b2) ==
  /\ b1.email.t = "string" /\ b2.email.t = "string"
  /\ ToLowerCase(Trim(b1.email.s)) = ToLowerCase(Trim(b2.email.s))
\* The handler of POST /newsletter run on the body from start to end: it
\* finds the row and takes one of the branches for an existing row, and
\* creates none.
TakesExistingRow(ip, body, row) ==
  LET f == PostNewsletterFindOutcome(ip, body)
  IN /\ f.existing = Some(row)
     /\ IF ~IsNull(f.resp) THEN f.resp[1].body = "already_subscribed"
        ELSE LET out == PostNewsletterWriteOutcome([email |-> f.email, existing |-> f.existing])
             IN /\ ~out.created
                /\ DOMAIN out.sub = DOMAIN newsletterSub
                /\ out.resp.body \in {"resubscribed", "confirmation_resent"}

\* C24: the subscriber is identified by the trimmed, lower-cased address.
\* In every state, for two bodies whose addresses differ at most in letter
\* case and surrounding whitespace, when the row of the first one exists, a
\* POST /newsletter with the second one that the limiters let through finds
\* that row and takes a branch for an existing row, creating none; and no
\* two rows carry the same address.
C24_SameSubscriber ==
  /\ \A b1, b2 \in NewsletterBodies, i \in DOMAIN newsletterSub :
       ( /\ SameAddress(b1, b2)
         /\ newsletterSchema(b1).email.ok
         /\ newsletterSchema(b1).email.value = newsletterSub[i].email
         /\ RateLimit2(hits, "general", "newsletter", "ip1").blocked = "none" )
       => TakesExistingRow("ip1", b2, newsletterSub[i])
  /\ \A i, j \in DOMAIN newsletterSub :
       newsletterSub[i].email = newsletterSub[j].email => i = j

\* C24 witness: after a subscription to a@b.io, a request with "A@B.io" or
\* with " a@b.io " is on the existing-row branch with the one row there is.
C24_SecondSpelling ==
  /\ Cardinality(DOMAIN newsletterSub) = 1
  /\ \E i \in DOMAIN newsletterSub : newsletterSub[i].email = EmailA
  /\ \E r \in Reqs : /\ inflight[r].pc = "subscribe"
                      /\ ~IsNull(inflight[r].existing)
  /\ \A b \in {[email |-> JStr(<<"A", "@", "B", ".", "i", "o">>)],
                [email |-> JStr(<<" ">> \o EmailA \o <<" ">>)]} :
       ~IsNull(PostNewsletterFindOutcome("ip1", b).existing)

\* C25: on a page load with a token in sessionStorage the panel takes it as
\* its token and sends it to GET /admin/verify; an answer that is not OK
\* clears the token from the state and from sessionStorage, so the login
\* screen is shown; an OK answer and a network error leave both as they are,
\* so the dashboard stays.
C25_VerifyOnMount ==
  [][ /\ (PanelMount /\ ~IsNull(panel.storage)) =>
           /\ panel'.token = panel.storage /\ panel'.storage = panel.storage
           /\ panel'.verify = panel.storage
      /\ PanelVerified =>
           IF ResOk(AdminVerifyOutcome(Bearer(panel.verify[1])).resp.status)
             THEN panel'.token = panel.token /\ panel'.storage = panel.storage
           ELSE IsNull(panel'.token) /\ IsNull(panel'.storage)
      /\ PanelVerifyFailed =>
           /\ ~IsNull(panel'.token)
           /\ panel'.token = panel.token /\ panel'.storage = panel.storage ]_vars

\* C25 witness: the page has just been loaded with a stored token that has
\* expired in the meantime: the dashboard is up, and the verify request,
\* which the server will answer with 401, is under way.
C25_MountedExpired ==
  /\ panel.pressed = "reload"
  /\ ~IsNull(panel.token) /\ panel.storage = panel.token /\ panel.verify = panel.token
  /\ AdminVerifyOutcome(Bearer(panel.token[1])).resp.status = 401

\* C26: once a row is unsubscribed (unsubAt set), no step sets its
\* confirmed flag, whatever token a confirm request presents: the flag can
\* become true again only in a step from a state in which a resubscribe has
\* cleared unsubAt.
C26_NoConfirmWhileUnsubscribed ==
  [][\A i \in DOMAIN newsletterSub \cap DOMAIN newsletterSub' :
       (~IsNull(newsletterSub[i].unsubAt) /\ ~newsletterSub[i].confirmed)
         => ~newsletterSub'[i].confirmed]_vars

\* C27: in every state every subscriber row has consistent flags: a
\* confirmed row has confirmedAt set and no confirmToken, and a row that is
\* not confirmed has no confirmedAt.
C27_FlagsConsistent ==
  \A i \in DOMAIN newsletterSub :
    LET row == newsletterSub[i]
    IN IF row.confirmed THEN ~IsNull(row.confirmedAt) /\ IsNull(row.confirmToken)
       ELSE IsNull(row.confirmedAt)

\* C28: whenever two PATCH requests for the same guestbook entry, or for the
\* same contact message, are both past their findUnique, the flip of each
\* takes effect: the first update to run changes the flag, the second one
\* changes it back, and the two responses report opposite values.
C28_EachFlipTakesEffect ==
  \A r, q \in Reqs :
    /\ ( /\ r # q
         /\ inflight[r].pc = "patchGuestbook" /\ inflight[q].pc = "patchGuestbook"
         /\ inflight[r].id = inflight[q].id
         /\ inflight[r].id \in DOMAIN guestbookEntry ) =>
         LET id == inflight[r].id
             first == AdminPatchGuestbookUpdateOn(guestbookEntry, inflight[r])
             second == AdminPatchGuestbookUpdateOn(first.table, inflight[q])
         IN /\ first.table[id].visible # guestbookEntry[id].visible
            /\ second.table[id].visible = guestbookEntry[id].visible
            /\ first.resp.data.visible # second.resp.data.visible
    /\ ( /\ r # q
         /\ inflight[r].pc = "patchContact" /\ inflight[q].pc = "patchContact"
         /\ inflight[r].id = inflight[q].id
         /\ inflight[r].id \in DOMAIN contactMessage ) =>
         LET id == inflight[r].id
             first == AdminPatchContactUpdateOutcome(inflight[r])
             second == AdminPatchContactUpdateOutcome(inflight[q])
         IN /\ first.table[id].read # contactMessage[id].read
            /\ first.resp.data.read # second.resp.data.read

\* C29: the response of every GET /admin/stats, whatever ran between its
\* six counts, has guestbook.visible <= guestbook.total,
\* newsletter.confirmed <= newsletter.total and
\* contacts.unread <= contacts.total.
C29_StatsConsistent ==
  \A r \in Reqs :
    StatsCounted(r) =>
      LET body == AdminStatsReplyOutcome(inflight[r]).resp.data
      IN /\ body.guestbook.visible <= body.guestbook.total
         /\ body.newsletter.confirmed <= body.newsletter.total
         /\ body.contacts.unread <= body.contacts.total

\* What the three POST routes answer to every body, each with the limiter of
\* its route: the counters after the request, the response, and whether the
\* handler went on to write.
PostOutcomes(ip) ==
  {[route |-> "guestbook", hits |-> PostGuestbookOutcome(ip, b).hits,
    status |-> PostGuestbookOutcome(ip, b).resp.status,
    writes |-> ~IsNull(PostGuestbookOutcome(ip, b).created)] :
     b \in GuestbookBodies \cup {GoodGuestbookBody, BadGuestbookBody}}
  \cup {[route |-> "contact", hits |-> PostContactOutcome(ip, b).hits,
         status |-> PostContactOutcome(ip, b).resp.status,
         writes |-> ~IsNull(PostContactOutcome(ip, b).created)] :
          b \in ContactBodies \cup {GoodContactBody, BadContactBody}}
  \cup {[route |-> "newsletter", hits |-> PostNewsletterFindOutcome(ip, b).hits,
         status |-> IF IsNull(PostNewsletterFindOutcome(ip, b).resp) THEN 0
                    ELSE PostNewsletterFindOutcome(ip, b).resp[1].status,
         writes |-> IsNull(PostNewsletterFindOutcome(ip, b).resp)] :
          b \in NewsletterBodies \cup {GoodNewsletterBody, BadNewsletterBody}}
\* The limiter of the route counts the request, and refuses it once the
\* client is at the cap, whatever the body; a refused request writes nothing.
CountedBeforeValidation(ip, out) ==
  /\ out.hits[out.route][ip] = hits[out.route][ip] + 1
  /\ hits[out.route][ip] >= Max(out.route) => out.status = 429
  /\ out.status = 429 => ~out.writes

\* C30, as stated: every POST to /guestbook, /newsletter or /contact, with a
\* body that passes validation or one that fails it, takes one unit of the
\* budget its client has with the limiter of the route, and a request that
\* a limiter refuses creates and modifies no row.
C30_EveryPostCounted ==
  \A ip \in IPs : \A out \in PostOutcomes(ip) : CountedBeforeValidation(ip, out)

\* C30, amended: every POST to /guestbook, /newsletter or /contact that the
\* general limiter lets through, with a body that passes validation or one
\* that fails it, takes one unit of the budget its client has with the
\* limiter of the route, and is refused by that limiter once the budget is
\* spent; a POST that the general limiter refuses does not reach the limiter
\* of the route and leaves its counter as it is; a request that a limiter
\* refuses creates and modifies no row.
C30_LimiterBeforeValidation ==
  \A ip \in IPs : \A out \in PostOutcomes(ip) :
    IF hits["general"][ip] < generalMax THEN CountedBeforeValidation(ip, out)
    ELSE /\ out.hits[out.route] = hits[out.route]
         /\ out.status = 429 /\ ~out.writes

\* C30 witness: bodies that fail validation alone have spent one client's
\* guestbook budget and another's newsletter and contact budget, so that
\* their next POST, also one with a good body, is refused and writes nothing.
C30_SpentOnBadBodies ==
  /\ hits["guestbook"]["ip1"] = guestbookMax /\ hits["general"]["ip1"] < generalMax
  /\ hits["newsletter"]["ip2"] = newsletterMax /\ hits["contact"]["ip2"] = contactMax
  /\ guestbookEntry = <<>> /\ newsletterSub = <<>> /\ contactMessage = <<>>
  /\ PostGuestbookOutcome("ip1", GoodGuestbookBody).resp = TooMany("guestbook")
  /\ PostContactOutcome("ip2", GoodContactBody).resp = TooMany("contact")
  /\ PostNewsletterFindOutcome("ip2", GoodNewsletterBody).resp = Some(TooMany("newsletter"))

====
